---- MODULE Spec2Model ----
(***************************************************************************)
(* aiocoinbase: the request pipeline of the Coinbase Pro REST client.      *)
(*                                                                         *)
(* The model follows aiocoinbase/endpoint.py (the base class every         *)
(* endpoint group imports as `..endpoint`): the parameter builder          *)
(* _buildup, the signer _sign, the response classifier _try_raise and the  *)
(* dispatcher _request, together with the public operations of the         *)
(* endpoint groups that call into them.                                    *)
(*                                                                         *)
(* Python text (str) is a sequence of one-character strings, so that       *)
(* concatenation, serialisation and parsing are computed, not assumed.     *)
(***************************************************************************)
EXTENDS Integers, Sequences, FiniteSets, TLC

VARIABLES
    secret,     \* Endpoint._secret, set by __init__
    session,    \* Endpoint._session: the headers the client session was built with
    converter,  \* Endpoint._converter: the types its structure hooks are registered for
    clock,      \* the wall clock read by utils.now()
    calls,      \* per dispatch: the locals of one public call and its _request
    bu,         \* one application of _buildup: its parameters and its result
    signing,    \* two applications of _sign: their arguments and their results
    leaf        \* one leaf through the converter: its wire value, what the hooks gave

vars == <<secret, session, converter, clock, calls, bu, signing, leaf>>

(***************************************************************************)
(* Bounds of the model.                                                    *)
(***************************************************************************)
\* Dispatch slots of one endpoint object.
NumCalls == 2
\* Readings of the wall clock.
MaxClock == 2
\* Keyword parameters handed to one _buildup call.
MaxParams == 3
\* Characters of a generated amount text.
MaxDigits == 3

(***************************************************************************)
(* Text.                                                                   *)
(***************************************************************************)
Digits == <<"0", "1", "2", "3", "4", "5", "6", "7", "8", "9">>
Lower == <<"a", "b", "c", "d", "e", "f", "g", "h", "i", "j", "k", "l", "m",
           "n", "o", "p", "q", "r", "s", "t", "u", "v", "w", "x", "y", "z">>
Upper == <<"A", "B", "C", "D", "E", "F", "G", "H", "I", "J", "K", "L", "M",
           "N", "O", "P", "Q", "R", "S", "T", "U", "V", "W", "X", "Y", "Z">>

IsUpper(ch) == \E i \in DOMAIN Upper : Upper[i] = ch
IsLower(ch) == \E i \in DOMAIN Lower : Lower[i] = ch
IsDigit(ch) == \E i \in DOMAIN Digits : Digits[i] = ch

\* str.lower() on one character.
ToLower(ch) == IF IsUpper(ch) THEN Lower[CHOOSE i \in DOMAIN Upper : Upper[i] = ch]
               ELSE ch

RECURSIVE IntStr(_)
\* str(n) of a natural number.
IntStr(n) == IF n < 10 THEN <<Digits[n + 1]>>
             ELSE IntStr(n \div 10) \o <<Digits[(n % 10) + 1]>>

RECURSIVE StrInt(_)
\* int(s) of a text made of digits only.
StrInt(s) == IF s = <<>> THEN 0
             ELSE 10 * StrInt(SubSeq(s, 1, Len(s) - 1))
                  + ((CHOOSE i \in DOMAIN Digits : Digits[i] = s[Len(s)]) - 1)

AllDigits(s) == s # <<>> /\ \A i \in DOMAIN s : IsDigit(s[i])

(***************************************************************************)
(* Python values.  Every value is a record of one shape: t is the type,    *)
(* s the text of a str (or the name of a callable), n the number of an int *)
(* or bool, items the members of a list, tuple or dict, and k the key      *)
(* under which a member of a dict is stored.                               *)
(***************************************************************************)
Val(t, s, n, items) == [t |-> t, k |-> <<>>, s |-> s, n |-> n, items |-> items]
None == Val("none", <<>>, 0, <<>>)
PyInt(n) == Val("int", <<>>, n, <<>>)
PyBool(b) == Val("bool", <<>>, IF b THEN 1 ELSE 0, <<>>)
PyStr(s) == Val("str", s, 0, <<>>)
PyList(items) == Val("list", <<>>, 0, items)
PyTuple(items) == Val("tuple", <<>>, 0, items)
PyDict(entries) == Val("dict", <<>>, 0, entries)
\* The builtins used as converters: str and int.
Func(name) == Val("func", name, 0, <<>>)
\* A member of types.Period: its name, and its value, which __int__ returns.
PyEnum(m) == Val("enum", m.name, m.value, <<>>)
Entry(key, v) == [v EXCEPT !.k = key]
Plain(e) == [e EXCEPT !.k = <<>>]

IsSequence(v) == v.t \in {"list", "tuple"}

HasKey(d, key) == \E i \in DOMAIN d.items : d.items[i].k = key
Lookup(d, key) == Plain(d.items[CHOOSE i \in DOMAIN d.items : d.items[i].k = key])

\* dict[key] = v: replaces in place, or appends in insertion order.
SetItem(entries, key, v) ==
    IF \E i \in DOMAIN entries : entries[i].k = key
    THEN [i \in DOMAIN entries |->
             IF entries[i].k = key THEN Entry(key, v) ELSE entries[i]]
    ELSE Append(entries, Entry(key, v))

RECURSIVE Repr(_), ReprItems(_, _)
\* repr(v).
Repr(v) ==
    CASE v.t = "none" -> <<"N", "o", "n", "e">>
      [] v.t = "bool" -> IF v.n = 1 THEN <<"T", "r", "u", "e">>
                         ELSE <<"F", "a", "l", "s", "e">>
      [] v.t = "int" -> IntStr(v.n)
      [] v.t = "str" -> <<"'">> \o v.s \o <<"'">>
      [] v.t = "list" -> <<"[">> \o ReprItems(v.items, FALSE) \o <<"]">>
      [] v.t = "tuple" -> <<"(">> \o ReprItems(v.items, FALSE)
                          \o (IF Len(v.items) = 1 THEN <<",">> ELSE <<>>) \o <<")">>
      [] v.t = "dict" -> <<"{">> \o ReprItems(v.items, TRUE) \o <<"}">>
      [] OTHER -> <<"<", "c", "l", "a", "s", "s", " ", "'">> \o v.s \o <<"'", ">">>

ReprItems(items, keyed) ==
    IF items = <<>> THEN <<>>
    ELSE LET h == Head(items)
             part == IF keyed THEN <<"'">> \o h.k \o <<"'", ":", " ">> \o Repr(h)
                     ELSE Repr(h)
         IN IF Len(items) = 1 THEN part
            ELSE part \o <<",", " ">> \o ReprItems(Tail(items), keyed)

\* str(v): the text itself for a str, Class.Member for a member of an Enum
\* without __str__, the repr otherwise.
StrOf(v) ==
    CASE v.t = "str" -> v.s
      [] v.t = "enum" -> <<"P", "e", "r", "i", "o", "d", ".">> \o v.s
      [] OTHER -> Repr(v)

\* The value put in as it was given, the converter left aside.
ApplySkipped(func, param) == [err |-> "", v |-> param]
\* func(param) for the converters of the endpoint groups; anything else put in
\* the second place of a pair is not callable.
Apply(func, param) ==
    CASE func.t # "func" -> [err |-> "TypeError", v |-> None]
      [] func.t = "func" /\ func.s = <<"s", "t", "r">> ->
            [err |-> "", v |-> PyStr(StrOf(param))]
      [] func.t = "func" /\ func.s = <<"i", "n", "t">> ->
            CASE param.t \in {"int", "bool", "enum"} -> [err |-> "", v |-> PyInt(param.n)]
              [] param.t = "str" /\ AllDigits(param.s) ->
                    [err |-> "", v |-> PyInt(StrInt(param.s))]
              [] param.t = "str" /\ ~AllDigits(param.s) ->
                    [err |-> "ValueError", v |-> None]
              [] OTHER -> [err |-> "TypeError", v |-> None]
      [] OTHER -> [err |-> "TypeError", v |-> None]

(***************************************************************************)
(* humps.decamelize.                                                       *)
(***************************************************************************)
\* A capital starts a new word unless it opens the key or continues a run of
\* capitals (an acronym keeps together up to the capital that opens the next
\* lower-case word).
WordStart(s, i) ==
    /\ i > 1
    /\ IsUpper(s[i])
    /\ \/ ~IsUpper(s[i - 1]) /\ s[i - 1] # "_"
       \/ IsUpper(s[i - 1]) /\ i < Len(s) /\ IsLower(s[i + 1])

RECURSIVE DecamelizeFrom(_, _)
DecamelizeFrom(s, i) ==
    IF i > Len(s) THEN <<>>
    ELSE (IF WordStart(s, i) THEN <<"_">> ELSE <<>>)
         \o <<ToLower(s[i])>> \o DecamelizeFrom(s, i + 1)

\* The key left as the call site wrote it.
KeyKept(s) == s
\* decamelize of one key: all-capital and numeric keys are returned as they are.
DecamelizeKey(s) ==
    IF \/ (\E i \in DOMAIN s : IsUpper(s[i])) /\ ~(\E i \in DOMAIN s : IsLower(s[i]))
       \/ AllDigits(s)
    THEN s
    ELSE DecamelizeFrom(s, 1)

RECURSIVE decamelize(_)
\* decamelize of a value: keys of mappings, through lists and nested mappings.
decamelize(v) ==
    CASE v.t = "list" ->
            [v EXCEPT !.items = [i \in DOMAIN v.items |-> decamelize(v.items[i])]]
      [] v.t = "dict" ->
            [v EXCEPT !.items = [i \in DOMAIN v.items |->
                Entry(DecamelizeKey(v.items[i].k), decamelize(Plain(v.items[i])))]]
      [] OTHER -> v

(***************************************************************************)
(* orjson.dumps: compact JSON text.                                        *)
(***************************************************************************)
RECURSIVE Serializable(_)
Serializable(v) ==
    CASE v.t \in {"none", "bool", "int", "str"} -> TRUE
      [] v.t \in {"list", "tuple", "dict"} ->
            \A i \in DOMAIN v.items : Serializable(Plain(v.items[i]))
      [] OTHER -> FALSE

RECURSIVE DumpsText(_), DumpsItems(_, _)
DumpsText(v) ==
    CASE v.t = "none" -> <<"n", "u", "l", "l">>
      [] v.t = "bool" -> IF v.n = 1 THEN <<"t", "r", "u", "e">>
                         ELSE <<"f", "a", "l", "s", "e">>
      [] v.t = "int" -> IntStr(v.n)
      [] v.t = "str" -> <<"\"">> \o v.s \o <<"\"">>
      [] v.t \in {"list", "tuple"} -> <<"[">> \o DumpsItems(v.items, FALSE) \o <<"]">>
      [] v.t = "dict" -> <<"{">> \o DumpsItems(v.items, TRUE) \o <<"}">>
      [] OTHER -> <<>>

DumpsItems(items, keyed) ==
    IF items = <<>> THEN <<>>
    ELSE LET h == Head(items)
             part == IF keyed THEN <<"\"">> \o h.k \o <<"\"", ":">> \o DumpsText(h)
                     ELSE DumpsText(h)
         IN IF Len(items) = 1 THEN part
            ELSE part \o <<",">> \o DumpsItems(Tail(items), keyed)

\* orjson.dumps(v).decode(), or the TypeError of a value JSON cannot carry.
dumps(v) == IF Serializable(v) THEN [err |-> "", text |-> DumpsText(v)]
            ELSE [err |-> "TypeError", text |-> <<>>]

(***************************************************************************)
(* Endpoint._buildup.                                                      *)
(***************************************************************************)
\* case None | (None, _): a sequence pattern matches a list or tuple of two.
AbsentPlainOnly(value) == value.t = "none"
\* `if not value: continue`, by truth and not by None.
AbsentFalsy(value) ==
    LET falsy(v) == \/ v.t = "none"
                    \/ v.t \in {"bool", "int"} /\ v.n = 0
                    \/ v.t = "str" /\ v.s = <<>>
                    \/ v.t \in {"list", "tuple", "dict"} /\ v.items = <<>>
    IN \/ falsy(value)
       \/ IsSequence(value) /\ Len(value.items) = 2 /\ falsy(value.items[1])
Absent(value) ==
    \/ value.t = "none"
    \/ IsSequence(value) /\ Len(value.items) = 2 /\ value.items[1].t = "none"

\* case (param, func)
IsPair(value) == IsSequence(value) /\ Len(value.items) = 2

RECURSIVE Process(_, _)
\* The loop over params.items(): the processed mapping so far, the keys whose
\* converter ran, and the exception that ended the loop, if any.
Process(params, acc) ==
    IF params = <<>> \/ acc.err # "" THEN acc
    ELSE LET e == Head(params)
             value == Plain(e)
         IN IF Absent(value) THEN Process(Tail(params), acc)
            ELSE IF IsPair(value)
            THEN LET r == Apply(value.items[2], value.items[1])
                 IN Process(Tail(params),
                            [err |-> r.err,
                             processed |-> IF r.err = "" THEN SetItem(acc.processed, e.k, r.v)
                                           ELSE acc.processed,
                             invoked |-> Append(acc.invoked, e.k)])
            ELSE Process(Tail(params),
                         [acc EXCEPT !.processed = SetItem(acc.processed, e.k, value)])

\* _buildup(**params): err is the exception raised ("" when none), text the
\* returned body; processed and invoked expose the loop's result.
_buildup(params) ==
    LET p == Process(params, [err |-> "", processed |-> <<>>, invoked |-> <<>>])
        d == dumps(decamelize(PyDict(p.processed)))
    IN [err |-> IF p.err # "" THEN p.err ELSE d.err,
        text |-> IF p.err # "" THEN <<>> ELSE d.text,
        processed |-> p.processed,
        invoked |-> p.invoked]

\* buildup(**params) of endpoints/endpoint.py's Endpoint, the base class no
\* group imports: the values that are not None as they were given, a (value,
\* converter) pair as the pair, then decamelize and dumps.
buildup(params) ==
    LET kept == SelectSeq(params, LAMBDA e : e.t # "none")
        d == dumps(decamelize(PyDict(kept)))
    IN [err |-> d.err, text |-> d.text, processed |-> kept, invoked |-> <<>>]

(***************************************************************************)
(* utils.Method, utils.now and Endpoint._sign.                             *)
(***************************************************************************)
Methods == {"DELETE", "GET", "POST", "PUT"}

\* str(Enum member) without Method.__str__: "Method.GET".
MethodStrDefault(method) ==
    <<"M", "e", "t", "h", "o", "d", ".">> \o
    (CASE method = "DELETE" -> <<"D", "E", "L", "E", "T", "E">>
       [] method = "GET" -> <<"G", "E", "T">>
       [] method = "POST" -> <<"P", "O", "S", "T">>
       [] method = "PUT" -> <<"P", "U", "T">>)
\* Method.__str__: the member's value.
MethodStr(method) ==
    CASE method = "DELETE" -> <<"D", "E", "L", "E", "T", "E">>
      [] method = "GET" -> <<"G", "E", "T">>
      [] method = "POST" -> <<"P", "O", "S", "T">>
      [] method = "PUT" -> <<"P", "U", "T">>

\* now(): str(datetime.now().timestamp()), the clock in seconds as a float.
now == IntStr(clock) \o <<".", "0">>

IsB64Char(ch) == IsUpper(ch) \/ IsLower(ch) \/ IsDigit(ch) \/ ch \in {"+", "/"}

\* base64.b64decode(s): characters outside the alphabet are discarded, and the
\* data characters must fill whole quads, with "=" padding a last quad of two
\* or three.  key stands for the decoded bytes.
b64decode(s) ==
    LET data == SelectSeq(s, IsB64Char)
        pads == Len(SelectSeq(s, LAMBDA ch : ch = "="))
        ok == \/ Len(data) % 4 = 0
              \/ Len(data) % 4 = 2 /\ pads >= 2
              \/ Len(data) % 4 = 3 /\ pads >= 1
    IN [err |-> IF ok THEN "" ELSE "binascii.Error",
        key |-> IF ok THEN data ELSE <<>>]

\* base64(HMAC-SHA256(key, msg)): a keyed digest, equal only for equal inputs.
Hmac(key, msg) == [key |-> key, msg |-> msg]
NoSignature == Hmac(<<>>, <<>>)

\* The message signed without its body.
MessageWithoutBody(timestamp, method, endpoint, body) == timestamp \o method \o endpoint
\* "".join((timestamp, method, endpoint, body))
Message(timestamp, method, endpoint, body) == timestamp \o method \o endpoint \o body

\* _sign(self, endpoint, method, body, timestamp)
_sign(endpoint, method, body, timestamp) ==
    LET message == Message(timestamp, method, endpoint, body)
        k == b64decode(secret)
    IN [err |-> k.err,
        signature |-> IF k.err = "" THEN Hmac(k.key, message) ELSE NoSignature]

(***************************************************************************)
(* orjson.loads, restricted to the compact texts of the documents the      *)
(* modelled exchange can answer with.                                      *)
(***************************************************************************)
K_message == <<"m", "e", "s", "s", "a", "g", "e">>
K_id == <<"i", "d">>
K_currency == <<"c", "u", "r", "r", "e", "n", "c", "y">>
K_balance == <<"b", "a", "l", "a", "n", "c", "e">>
K_available == <<"a", "v", "a", "i", "l", "a", "b", "l", "e">>
K_hold == <<"h", "o", "l", "d">>
K_profile_id == <<"p", "r", "o", "f", "i", "l", "e", "_", "i", "d">>
K_trading_enabled == <<"t", "r", "a", "d", "i", "n", "g", "_",
                       "e", "n", "a", "b", "l", "e", "d">>
K_limit == <<"l", "i", "m", "i", "t">>
K_status == <<"s", "t", "a", "t", "u", "s">>
K_created_at == <<"c", "r", "e", "a", "t", "e", "d", "_", "a", "t">>
K_updated_at == <<"u", "p", "d", "a", "t", "e", "d", "_", "a", "t">>
K_type == <<"t", "y", "p", "e">>
K_ref == <<"r", "e", "f">>
K_name == <<"n", "a", "m", "e">>
K_min_size == <<"m", "i", "n", "_", "s", "i", "z", "e">>
K_max_precision == <<"m", "a", "x", "_", "p", "r", "e", "c", "i", "s", "i", "o", "n">>
K_details == <<"d", "e", "t", "a", "i", "l", "s">>
K_convertible_to == <<"c", "o", "n", "v", "e", "r", "t", "i", "b", "l", "e", "_", "t", "o">>
K_symbol == <<"s", "y", "m", "b", "o", "l">>
K_network_confirmations == <<"n", "e", "t", "w", "o", "r", "k", "_", "c", "o", "n", "f", "i", "r", "m", "a", "t", "i", "o", "n", "s">>
K_sort_order == <<"s", "o", "r", "t", "_", "o", "r", "d", "e", "r">>
K_crypto_address_link == <<"c", "r", "y", "p", "t", "o", "_", "a", "d", "d", "r", "e", "s", "s", "_", "l", "i", "n", "k">>
K_crypto_transaction_link == <<"c", "r", "y", "p", "t", "o", "_", "t", "r", "a", "n", "s", "a", "c", "t", "i", "o", "n", "_", "l", "i", "n", "k">>
K_push_payment_methods == <<"p", "u", "s", "h", "_", "p", "a", "y", "m", "e", "n", "t", "_", "m", "e", "t", "h", "o", "d", "s">>
K_group_types == <<"g", "r", "o", "u", "p", "_", "t", "y", "p", "e", "s">>
K_display_name == <<"d", "i", "s", "p", "l", "a", "y", "_", "n", "a", "m", "e">>
K_processing_time_seconds == <<"p", "r", "o", "c", "e", "s", "s", "i", "n", "g", "_", "t", "i", "m", "e", "_", "s", "e", "c", "o", "n", "d", "s">>
K_min_withdrawal_amount == <<"m", "i", "n", "_", "w", "i", "t", "h", "d", "r", "a", "w", "a", "l", "_", "a", "m", "o", "u", "n", "t">>
K_max_withdrawal_amount == <<"m", "a", "x", "_", "w", "i", "t", "h", "d", "r", "a", "w", "a", "l", "_", "a", "m", "o", "u", "n", "t">>

Boom == PyStr(<<"b", "o", "o", "m">>)

AccountEntries ==
    << Entry(K_id, PyStr(<<"1">>)),
       Entry(K_currency, PyStr(<<"B", "T", "C">>)),
       Entry(K_balance, PyStr(<<"1", "0", ".", "5">>)),
       Entry(K_available, PyStr(<<"1", "0", ".", "5">>)),
       Entry(K_hold, PyStr(<<"0">>)),
       Entry(K_profile_id, PyStr(<<"p">>)),
       Entry(K_trading_enabled, PyBool(TRUE)) >>

\* The JSON documents of the model's responses.
ErrorDoc == PyDict(<<Entry(K_message, Boom)>>)
EmptyDoc == PyDict(<<>>)
EmptyListDoc == PyList(<<>>)
AccountDoc == PyDict(AccountEntries)
\* An account without its balance.
PartialAccountDoc == PyDict(SelectSeq(AccountEntries, LAMBDA e : e.k # K_balance))
\* An account whose balance is not a number.
BadAmountAccountDoc ==
    PyDict([i \in DOMAIN AccountEntries |->
               IF AccountEntries[i].k = K_balance
               THEN Entry(K_balance, PyStr(<<"1", ".", "2", ".", "3">>))
               ELSE AccountEntries[i]])
\* An account sent along with a message, as a rejecting exchange may do.
AccountMessageDoc == PyDict(Append(AccountEntries, Entry(K_message, Boom)))
AccountListDoc == PyList(<<AccountDoc>>)

\* A hold, and one whose creation time is no timestamp.
HoldEntries ==
    << Entry(K_id, PyStr(<<"1">>)),
       Entry(K_created_at, PyStr(<<"2", "0", "2", "0", "-", "0", "1", "-", "0", "2">>)),
       Entry(K_updated_at, PyStr(<<"2", "0", "2", "0", "-", "0", "1", "-", "0", "2">>)),
       Entry(K_type, PyStr(<<"h">>)),
       Entry(K_ref, PyStr(<<"r">>)) >>
HoldDoc == PyDict(HoldEntries)
BadTimeHoldDoc ==
    PyDict([i \in DOMAIN HoldEntries |->
               IF HoldEntries[i].k = K_created_at
               THEN Entry(K_created_at, PyStr(<<"s", "o", "o", "n">>))
               ELSE HoldEntries[i]])

\* A currency with its nested details.
DetailsEntries ==
    << Entry(K_type, PyStr(<<"c">>)),
       Entry(K_symbol, None),
       Entry(K_network_confirmations, PyInt(3)),
       Entry(K_sort_order, PyInt(1)),
       Entry(K_crypto_address_link, None),
       Entry(K_crypto_transaction_link, None),
       Entry(K_push_payment_methods, None),
       Entry(K_group_types, None),
       Entry(K_display_name, PyStr(<<"B">>)),
       Entry(K_processing_time_seconds, None),
       Entry(K_min_withdrawal_amount, PyStr(<<"0", ".", "1">>)),
       Entry(K_max_withdrawal_amount, None) >>
CurrencyEntries(details) ==
    << Entry(K_id, PyStr(<<"B", "T", "C">>)),
       Entry(K_name, PyStr(<<"B">>)),
       Entry(K_min_size, PyStr(<<"0", ".", "1">>)),
       Entry(K_status, PyStr(<<"o", "n">>)),
       Entry(K_max_precision, PyStr(<<"0", ".", "1">>)),
       Entry(K_details, PyDict(details)),
       Entry(K_message, PyStr(<<"m">>)),
       Entry(K_convertible_to, PyList(<<PyStr(<<"U", "S", "D">>)>>)) >>
CurrencyDoc == PyDict(CurrencyEntries(DetailsEntries))
\* A currency whose details lack the symbol.
PartialCurrencyDoc ==
    PyDict(CurrencyEntries(SelectSeq(DetailsEntries, LAMBDA e : e.k # K_symbol)))

\* The documents of the decoding scenarios.
CodecDocs == {HoldDoc, BadTimeHoldDoc, CurrencyDoc, PartialCurrencyDoc}

JsonDocs == {ErrorDoc, EmptyDoc, EmptyListDoc, AccountDoc, PartialAccountDoc,
             BadAmountAccountDoc, AccountMessageDoc, AccountListDoc}

\* Body text that is not JSON.
NotJson == <<"n", "o", "t", " ", "j", "s", "o", "n">>

RawBodies == {DumpsText(d) : d \in JsonDocs} \cup {NotJson}

\* orjson.loads(raw): the document whose text raw is, or JSONDecodeError.
loads(raw) ==
    IF \E d \in JsonDocs \cup CodecDocs : DumpsText(d) = raw
    THEN [err |-> "", v |-> CHOOSE d \in JsonDocs \cup CodecDocs : DumpsText(d) = raw]
    ELSE [err |-> "JSONDecodeError", v |-> None]

(***************************************************************************)
(* Endpoint._try_raise.                                                    *)
(***************************************************************************)
\* The match on status: the exception class raised, "" when no case matches.
RaisedFor(status) ==
    CASE status = 400 -> "InvalidRequestError"
      [] status = 401 -> "InvalidKeyError"
      [] status = 403 -> "NoAccessError"
      [] status = 404 -> "NotFoundError"
      [] status = 500 -> "CoinbaseError"
      [] OTHER -> ""

\* _try_raise(status, raw): err is the exception raised ("" on return),
\* message its argument.  orjson.loads(raw)["message"] runs for every status
\* but 200, before the match.
_try_raise(status, raw) ==
    IF status = 200 THEN [err |-> "", message |-> None]
    ELSE LET l == loads(raw)
         IN CASE l.err # "" -> [err |-> l.err, message |-> None]
              [] l.err = "" /\ l.v.t # "dict" -> [err |-> "TypeError", message |-> None]
              [] l.err = "" /\ l.v.t = "dict" /\ ~HasKey(l.v, K_message) ->
                    [err |-> "KeyError", message |-> None]
              [] OTHER -> [err |-> RaisedFor(status), message |-> Lookup(l.v, K_message)]

(***************************************************************************)
(* Converter.structure: cattrs with the Decimal hook of converter.py.      *)
(***************************************************************************)
\* Converter.__init__: the types a structure hook is registered for.
Hooks == {"Decimal", "datetime"}

\* bool(v)
Truthy(v) ==
    CASE v.t = "none" -> FALSE
      [] v.t \in {"bool", "int"} -> v.n # 0
      [] v.t = "str" -> v.s # <<>>
      [] v.t \in {"list", "tuple", "dict"} -> v.items # <<>>
      [] OTHER -> TRUE

RECURSIVE StripZeros(_)
StripZeros(s) == IF Len(s) > 1 /\ s[1] = "0" THEN StripZeros(Tail(s)) ELSE s

\* A decimal literal over digits and the point: digits on at least one side
\* of at most one point.
IsDecimalText(s) ==
    /\ \A i \in DOMAIN s : IsDigit(s[i]) \/ s[i] = "."
    /\ \E i \in DOMAIN s : IsDigit(s[i])
    /\ Cardinality({i \in DOMAIN s : s[i] = "."}) <= 1

\* The digits before the point alone, as int(float(text)) gives them.
DecimalOfWhole(s) ==
    LET point == IF \E i \in DOMAIN s : s[i] = "."
                 THEN CHOOSE i \in DOMAIN s : s[i] = "."
                 ELSE Len(s) + 1
    IN Val("decimal", StripZeros(SubSeq(s, 1, point - 1)), 0, <<>>)
\* Decimal(text): the coefficient's digits in s, the count of fraction digits
\* in n.
DecimalOfText(s) ==
    LET digits == SelectSeq(s, IsDigit)
        point == IF \E i \in DOMAIN s : s[i] = "."
                 THEN CHOOSE i \in DOMAIN s : s[i] = "."
                 ELSE Len(s) + 1
    IN Val("decimal", StripZeros(digits), Len(s) + 1 - point
                                          - (IF point <= Len(s) THEN 1 ELSE 0) , <<>>)

\* Decimal(float(obj)) cut to the seventeen digits a float can hold.
StructureDecimalByFloat(obj) ==
    IF obj.t = "str" /\ IsDecimalText(obj.s)
    THEN LET d == DecimalOfText(obj.s)
             cut == IF Len(d.s) > 17 THEN Len(d.s) - 17 ELSE 0
         IN [err |-> "",
             v |-> Val("decimal", SubSeq(d.s, 1, Len(d.s) - cut),
                       IF d.n > cut THEN d.n - cut ELSE 0, <<>>)]
    ELSE [err |-> "InvalidOperation", v |-> None]
\* Converter._structure_decimal(obj, _): Decimal(obj)
_structure_decimal(obj) ==
    CASE obj.t = "str" /\ IsDecimalText(obj.s) -> [err |-> "", v |-> DecimalOfText(obj.s)]
      [] obj.t = "str" /\ ~IsDecimalText(obj.s) -> [err |-> "InvalidOperation", v |-> None]
      [] obj.t \in {"int", "bool"} -> [err |-> "", v |-> Val("decimal", IntStr(obj.n), 0, <<>>)]
      [] OTHER -> [err |-> "TypeError", v |-> None]

Zeros(k) == [i \in 1..k |-> "0"]

\* Converter._unstructure_decimal(obj): str(obj), Decimal.__str__: the digits
\* with the point in its place, or in scientific notation once six or more
\* zeros would follow the point.
_unstructure_decimal(obj) ==
    LET digits == obj.s
        leftdigits == Len(digits) - obj.n
        dotplace == IF leftdigits > -6 THEN leftdigits ELSE 1
        intpart == CASE dotplace <= 0 -> <<"0">>
                     [] dotplace > 0 /\ dotplace >= Len(digits) ->
                           digits \o Zeros(dotplace - Len(digits))
                     [] OTHER -> SubSeq(digits, 1, dotplace)
        fracpart == CASE dotplace <= 0 -> <<".">> \o Zeros(-dotplace) \o digits
                      [] dotplace > 0 /\ dotplace >= Len(digits) -> <<>>
                      [] OTHER -> <<".">> \o SubSeq(digits, dotplace + 1, Len(digits))
        exp == IF leftdigits = dotplace THEN <<>>
               ELSE <<"E", "-">> \o IntStr(dotplace - leftdigits)
    IN PyStr(intpart \o fracpart \o exp)

\* A target shape: a class, or a list of a class.
Cls(name) == [list |-> FALSE, name |-> name]
ListOf(name) == [list |-> TRUE, name |-> name]

\* The attributes of the attrs classes whose decoding the model details, in
\* the order of their declaration; opt marks `T | None`.
Fields(name) ==
    CASE name = "Account" ->
            << [name |-> K_id, type |-> "str", opt |-> FALSE],
               [name |-> K_currency, type |-> "str", opt |-> FALSE],
               [name |-> K_balance, type |-> "Decimal", opt |-> FALSE],
               [name |-> K_available, type |-> "Decimal", opt |-> FALSE],
               [name |-> K_hold, type |-> "Decimal", opt |-> FALSE],
               [name |-> K_profile_id, type |-> "str", opt |-> FALSE],
               [name |-> K_trading_enabled, type |-> "bool", opt |-> FALSE] >>
      [] name = "Hold" ->
            << [name |-> K_id, type |-> "str", opt |-> FALSE],
               [name |-> K_created_at, type |-> "datetime", opt |-> FALSE],
               [name |-> K_updated_at, type |-> "datetime", opt |-> FALSE],
               [name |-> K_type, type |-> "str", opt |-> FALSE],
               [name |-> K_ref, type |-> "str", opt |-> FALSE] >>
      [] name = "Currency" ->
            << [name |-> K_id, type |-> "str", opt |-> FALSE],
               [name |-> K_name, type |-> "str", opt |-> FALSE],
               [name |-> K_min_size, type |-> "Decimal", opt |-> FALSE],
               [name |-> K_status, type |-> "str", opt |-> FALSE],
               [name |-> K_max_precision, type |-> "Decimal", opt |-> FALSE],
               [name |-> K_details, type |-> "Currency.Details", opt |-> FALSE],
               [name |-> K_message, type |-> "str", opt |-> TRUE],
               [name |-> K_convertible_to, type |-> "Sequence[str]", opt |-> TRUE] >>
      [] name = "Currency.Details" ->
            << [name |-> K_type, type |-> "str", opt |-> TRUE],
               [name |-> K_symbol, type |-> "str", opt |-> TRUE],
               [name |-> K_network_confirmations, type |-> "int", opt |-> TRUE],
               [name |-> K_sort_order, type |-> "int", opt |-> TRUE],
               [name |-> K_crypto_address_link, type |-> "str", opt |-> TRUE],
               [name |-> K_crypto_transaction_link, type |-> "str", opt |-> TRUE],
               [name |-> K_push_payment_methods, type |-> "Sequence[str]", opt |-> TRUE],
               [name |-> K_group_types, type |-> "Sequence[str]", opt |-> TRUE],
               [name |-> K_display_name, type |-> "str", opt |-> TRUE],
               [name |-> K_processing_time_seconds, type |-> "float", opt |-> TRUE],
               [name |-> K_min_withdrawal_amount, type |-> "Decimal", opt |-> TRUE],
               [name |-> K_max_withdrawal_amount, type |-> "Decimal", opt |-> TRUE] >>

Detailed(name) == name \in {"Account", "Hold", "Currency", "Currency.Details"}

\* The days of a month of a year.
DaysIn(year, month) ==
    CASE month \in {4, 6, 9, 11} -> 30
      [] month = 2 ->
            IF year % 4 = 0 /\ (year % 100 # 0 \/ year % 400 = 0) THEN 29 ELSE 28
      [] OTHER -> 31

\* ciso8601.parse_datetime accepts the text: of the ISO 8601 forms, the
\* calendar date YYYY-MM-DD is the one the model's responses use.
IsIso8601(s) ==
    /\ Len(s) = 10
    /\ \A i \in {1, 2, 3, 4, 6, 7, 9, 10} : IsDigit(s[i])
    /\ s[5] = "-" /\ s[8] = "-"
    /\ StrInt(SubSeq(s, 1, 4)) >= 1
    /\ StrInt(SubSeq(s, 6, 7)) \in 1..12
    /\ StrInt(SubSeq(s, 9, 10)) \in 1..DaysIn(StrInt(SubSeq(s, 1, 4)), StrInt(SubSeq(s, 6, 7)))

\* The parse under suppress(ValueError, TypeError) with nothing raised after
\* it: the function falls off its end.
StructureDatetimeSuppressed(obj) ==
    IF obj.t = "str" /\ IsIso8601(obj.s)
    THEN [err |-> "", v |-> Val("datetime", obj.s, 0, <<>>)]
    ELSE [err |-> "", v |-> None]

\* Converter._structure_datetime(obj, _): the parse under
\* suppress(ValueError, TypeError), then `raise ValueError`.
_structure_datetime(obj) ==
    IF obj.t = "str" /\ IsIso8601(obj.s)
    THEN [err |-> "", v |-> Val("datetime", obj.s, 0, <<>>)]
    ELSE [err |-> "ValueError", v |-> None]

\* Sequence[str]: every member through str(); a mapping is iterated by its
\* keys, a text by its characters.
StructureStrings(v) ==
    CASE v.t \in {"list", "tuple"} ->
            [err |-> "", v |-> PyList([i \in DOMAIN v.items |-> PyStr(StrOf(v.items[i]))])]
      [] v.t = "dict" ->
            [err |-> "", v |-> PyList([i \in DOMAIN v.items |-> PyStr(v.items[i].k)])]
      [] v.t = "str" ->
            [err |-> "", v |-> PyList([i \in DOMAIN v.s |-> PyStr(<<v.s[i]>>)])]
      [] OTHER -> [err |-> "TypeError", v |-> None]

\* int(v)
StructureInt(v) ==
    CASE v.t \in {"int", "bool"} -> [err |-> "", v |-> PyInt(v.n)]
      [] v.t = "str" /\ AllDigits(v.s) -> [err |-> "", v |-> PyInt(StrInt(v.s))]
      [] v.t = "str" /\ ~AllDigits(v.s) -> [err |-> "ValueError", v |-> None]
      [] OTHER -> [err |-> "TypeError", v |-> None]

\* float(v), for the whole numbers the model's responses use.
StructureFloat(v) ==
    CASE v.t \in {"int", "bool"} -> [err |-> "", v |-> Val("float", <<>>, v.n, <<>>)]
      [] v.t = "str" /\ AllDigits(v.s) ->
            [err |-> "", v |-> Val("float", <<>>, StrInt(v.s), <<>>)]
      [] v.t = "str" /\ ~AllDigits(v.s) -> [err |-> "ValueError", v |-> None]
      [] OTHER -> [err |-> "TypeError", v |-> None]

RECURSIVE StructureLeaf(_, _), StructureFields(_, _, _), StructureClass(_, _)
\* One attribute: a primitive is structured by calling its type on the value,
\* Decimal and datetime by the hooks of the converter, an attrs class by its
\* attributes.
StructureLeaf(v, type) ==
    CASE type = "str" -> [err |-> "", v |-> PyStr(StrOf(v))]
      [] type = "bool" -> [err |-> "", v |-> PyBool(Truthy(v))]
      [] type = "int" -> StructureInt(v)
      [] type = "float" -> StructureFloat(v)
      [] type = "Sequence[str]" -> StructureStrings(v)
      [] type = "Decimal" /\ "Decimal" \in converter -> _structure_decimal(v)
      [] type = "datetime" /\ "datetime" \in converter -> _structure_datetime(v)
      [] type \notin {"str", "bool", "int", "float", "Sequence[str]", "Decimal", "datetime"}
         /\ Detailed(type) -> StructureClass(v, type)
      [] OTHER -> [err |-> "StructureHandlerNotFoundError", v |-> None]

RECURSIVE StructureFieldsLenient(_, _, _)
\* The attributes in turn, one whose key is missing or whose value fails left
\* out of the record.
StructureFieldsLenient(payload, fields, acc) ==
    IF fields = <<>> THEN [err |-> "", entries |-> acc]
    ELSE LET f == Head(fields)
         IN IF ~HasKey(payload, f.name)
            THEN StructureFieldsLenient(payload, Tail(fields), acc)
            ELSE LET x == Lookup(payload, f.name)
                     r == IF f.opt /\ x.t = "none" THEN [err |-> "", v |-> None]
                          ELSE StructureLeaf(x, f.type)
                 IN IF r.err # "" THEN StructureFieldsLenient(payload, Tail(fields), acc)
                    ELSE StructureFieldsLenient(payload, Tail(fields),
                                                Append(acc, Entry(f.name, r.v)))
\* The attributes in turn: a missing key ends the decoding, and so does an
\* attribute that fails; `T | None` passes None through.
StructureFields(payload, fields, acc) ==
    IF fields = <<>> THEN [err |-> "", entries |-> acc]
    ELSE LET f == Head(fields)
         IN IF ~HasKey(payload, f.name) THEN [err |-> "KeyError", entries |-> <<>>]
            ELSE LET x == Lookup(payload, f.name)
                     r == IF f.opt /\ x.t = "none" THEN [err |-> "", v |-> None]
                          ELSE StructureLeaf(x, f.type)
                 IN IF r.err # "" THEN [err |-> r.err, entries |-> <<>>]
                    ELSE StructureFields(payload, Tail(fields),
                                         Append(acc, Entry(f.name, r.v)))

\* An attrs class from a mapping: every attribute is read by its name; keys
\* that name no attribute are ignored.
StructureClass(payload, name) ==
    IF payload.t # "dict" THEN [err |-> "TypeError", v |-> None]
    ELSE LET r == StructureFields(payload, Fields(name), <<>>)
         IN [err |-> r.err,
             v |-> IF r.err = "" THEN Val("object", <<>>, 0, r.entries) ELSE None]

RECURSIVE StructureEach(_, _, _)
StructureEach(items, name, acc) ==
    IF items = <<>> THEN [err |-> "", v |-> PyList(acc)]
    ELSE LET r == StructureClass(Plain(Head(items)), name)
         IN IF r.err # "" THEN [err |-> r.err, v |-> None]
            ELSE StructureEach(Tail(items), name, Append(acc, r.v))

\* list[cls]: the payload is iterated; iterating a mapping or a text yields
\* its keys or characters, which are no mappings.
StructureList(payload, name) ==
    CASE payload.t = "list" -> StructureEach(payload.items, name, <<>>)
      [] payload.t = "dict" /\ payload.items = <<>> -> [err |-> "", v |-> PyList(<<>>)]
      [] payload.t = "str" /\ payload.s = <<>> -> [err |-> "", v |-> PyList(<<>>)]
      [] OTHER -> [err |-> "TypeError", v |-> None]

\* self._converter.structure(payload, cls)
structure(payload, cls) ==
    IF cls.list THEN StructureList(payload, cls.name)
    ELSE StructureClass(payload, cls.name)

(***************************************************************************)
(* The endpoint groups: every public operation with the attribute of self  *)
(* it builds its body with ("" when it builds none), the attribute it      *)
(* dispatches with, the verb, the path (identifiers are "1"), the target   *)
(* and whether it validates an argument first.                             *)
(***************************************************************************)
Op(group, name, builder, dispatcher, method, path, cls, validates) ==
    [group |-> group, name |-> name, builder |-> builder, dispatcher |-> dispatcher,
     method |-> method, path |-> path, cls |-> cls, validates |-> validates]

P_1 == <<"/", "1">>
P_accounts == <<"/", "a", "c", "c", "o", "u", "n", "t", "s">>
P_holds == <<"/", "h", "o", "l", "d", "s">>
P_ledger == <<"/", "l", "e", "d", "g", "e", "r">>
P_transfers == <<"/", "t", "r", "a", "n", "s", "f", "e", "r", "s">>
P_conversions == <<"/", "c", "o", "n", "v", "e", "r", "s", "i", "o", "n", "s">>
P_currencies == <<"/", "c", "u", "r", "r", "e", "n", "c", "i", "e", "s">>
P_deposits == <<"/", "d", "e", "p", "o", "s", "i", "t", "s">>
P_coinbase_account == <<"/", "c", "o", "i", "n", "b", "a", "s", "e", "-",
                        "a", "c", "c", "o", "u", "n", "t">>
P_payment_method == <<"/", "p", "a", "y", "m", "e", "n", "t", "-",
                      "m", "e", "t", "h", "o", "d">>
P_fees == <<"/", "f", "e", "e", "s">>
P_oracle == <<"/", "o", "r", "a", "c", "l", "e">>
P_orders == <<"/", "o", "r", "d", "e", "r", "s">>
P_products == <<"/", "p", "r", "o", "d", "u", "c", "t", "s">>
P_book == <<"/", "b", "o", "o", "k">>
P_candles == <<"/", "c", "a", "n", "d", "l", "e", "s">>
P_stats == <<"/", "s", "t", "a", "t", "s">>
P_ticker == <<"/", "t", "i", "c", "k", "e", "r">>
P_trades == <<"/", "t", "r", "a", "d", "e", "s">>
P_profiles == <<"/", "p", "r", "o", "f", "i", "l", "e", "s">>
P_transfer == <<"/", "t", "r", "a", "n", "s", "f", "e", "r">>
P_deactivate == <<"/", "d", "e", "a", "c", "t", "i", "v", "a", "t", "e">>
P_reports == <<"/", "r", "e", "p", "o", "r", "t", "s">>
P_withdrawals == <<"/", "w", "i", "t", "h", "d", "r", "a", "w", "a", "l", "s">>
P_crypto == <<"/", "c", "r", "y", "p", "t", "o">>
P_fee_estimate == <<"/", "f", "e", "e", "-", "e", "s", "t", "i", "m", "a", "t", "e">>

Accounts ==
    { Op("Accounts", "get", "", "request", "GET", P_accounts \o P_1, Cls("Account"), FALSE),
      Op("Accounts", "get_all", "", "request", "GET", P_accounts, ListOf("Account"), FALSE),
      Op("Accounts", "get_holds", "buildup", "request", "GET",
         P_accounts \o P_1 \o P_holds, ListOf("Hold"), FALSE),
      Op("Accounts", "get_ledger", "buildup", "request", "GET",
         P_accounts \o P_1 \o P_ledger, ListOf("Activity"), FALSE),
      Op("Accounts", "get_transfers", "buildup", "request", "GET",
         P_accounts \o P_1 \o P_transfers, ListOf("Transfer"), FALSE) }

Conversions ==
    { Op("Conversions", "create", "buildup", "request", "POST",
         P_conversions, Cls("Conversion"), FALSE),
      Op("Conversions", "get", "buildup", "request", "GET",
         P_conversions \o P_1, Cls("Conversion"), FALSE) }

Currencies ==
    { Op("Currencies", "get", "", "_request", "GET",
         P_currencies \o P_1, Cls("Currency"), FALSE),
      Op("Currencies", "get_all", "", "_request", "GET",
         P_currencies, ListOf("Currency"), FALSE) }

Deposits ==
    { Op("Deposits", "create", "_buildup", "_request", "POST",
         P_deposits \o P_coinbase_account, Cls("Deposit"), FALSE),
      Op("Deposits", "create_external", "_buildup", "_request", "POST",
         P_deposits \o P_payment_method, Cls("Deposit"), FALSE) }

Fees ==
    { Op("Fees", "get", "", "request", "GET", P_fees, ListOf("Fee"), FALSE) }

Oracle ==
    { Op("Oracle", "get", "", "request", "GET", P_oracle, Cls("Price"), FALSE) }

Orders ==
    { Op("Orders", "get", "", "_request", "GET", P_orders \o P_1, Cls("Order"), FALSE),
      Op("Orders", "get_all", "_buildup", "_request", "GET",
         P_orders, ListOf("Order"), FALSE),
      Op("Orders", "cancel", "_buildup", "_request", "DELETE",
         P_orders \o P_1, Cls("str"), FALSE),
      Op("Orders", "cancel_all", "_buildup", "_request", "DELETE",
         P_orders, ListOf("str"), FALSE),
      Op("Orders", "create", "_buildup", "_request", "POST",
         P_orders, Cls("Order"), FALSE) }

Products ==
    { Op("Products", "get", "", "_request", "GET",
         P_products \o P_1, Cls("Product"), FALSE),
      Op("Products", "get_all", "", "_request", "GET",
         P_products, ListOf("Product"), FALSE),
      Op("Products", "get_book", "_buildup", "_request", "GET",
         P_products \o P_1 \o P_book, Cls("Book"), TRUE),
      Op("Products", "get_ohlc", "_buildup", "_request", "GET",
         P_products \o P_1 \o P_candles, ListOf("OHLC"), FALSE),
      Op("Products", "get_window", "", "_request", "GET",
         P_products \o P_1 \o P_stats, Cls("Window"), FALSE),
      Op("Products", "get_ticker", "", "_request", "GET",
         P_products \o P_1 \o P_ticker, Cls("Ticker"), FALSE),
      Op("Products", "get_trades", "_buildup", "_request", "GET",
         P_products \o P_1 \o P_trades, ListOf("Trade"), FALSE) }

Profiles ==
    { Op("Profiles", "get", "buildup", "request", "GET",
         P_profiles \o P_1, Cls("Profile"), FALSE),
      Op("Profiles", "get_all", "buildup", "request", "GET",
         P_profiles, ListOf("Profile"), FALSE),
      Op("Profiles", "create", "buildup", "request", "POST",
         P_profiles, Cls("Profile"), FALSE),
      Op("Profiles", "transfer", "buildup", "request", "POST",
         P_profiles \o P_transfer, Cls("None"), FALSE),
      Op("Profiles", "rename", "buildup", "request", "PUT",
         P_profiles \o P_1, Cls("Profile"), TRUE),
      Op("Profiles", "delete", "buildup", "request", "PUT",
         P_profiles \o P_1 \o P_deactivate, Cls("None"), FALSE) }

Reports ==
    { Op("Reports", "get", "", "_request", "GET", P_reports \o P_1, Cls("Report"), FALSE),
      Op("Reports", "get_all", "_buildup", "_request", "GET",
         P_reports, ListOf("Report"), FALSE),
      Op("Reports", "create", "_buildup", "_request", "POST",
         P_reports, Cls("CreateResponse"), FALSE) }

Transfers ==
    { Op("Transfers", "get", "", "_request", "GET",
         P_transfers \o P_1, Cls("Transfer"), FALSE),
      Op("Transfers", "get_all", "", "_request", "GET",
         P_transfers, ListOf("Transfer"), FALSE) }

Withdrawals ==
    { Op("Withdrawals", "to_account", "buildup", "request", "POST",
         P_withdrawals \o P_coinbase_account, Cls("Withdrawal"), FALSE),
      Op("Withdrawals", "to_crypto", "buildup", "request", "GET",
         P_withdrawals \o P_crypto, Cls("Withdrawal"), FALSE),
      Op("Withdrawals", "to_external", "buildup", "request", "POST",
         P_withdrawals \o P_payment_method, Cls("Withdrawal"), FALSE),
      Op("Withdrawals", "get_fee", "buildup", "request", "GET",
         P_withdrawals \o P_fee_estimate, Cls("Decimal"), FALSE) }

\* The groups a Connector holds.
Operations ==
    Accounts \cup Conversions \cup Currencies \cup Deposits \cup Fees \cup Oracle
    \cup Orders \cup Products \cup Profiles \cup Reports \cup Transfers \cup Withdrawals

\* What aiocoinbase/endpoint.py's Endpoint defines for its subclasses.
EndpointAttrs == {"__init__", "_sign", "_buildup", "_try_raise", "_request"}

(***************************************************************************)
(* Endpoint._request.                                                      *)
(***************************************************************************)
\* body: str | None
BodyNone == [some |-> FALSE, s |-> <<>>]
Some(s) == [some |-> TRUE, s |-> s]

\* body if body else ""
BodyOrEmpty(body) == IF body.some /\ body.s # <<>> THEN body.s ELSE <<>>

\* How a call ended: the exception raised and the step that raised it, or the
\* value returned.
NoOutcome == [kind |-> "", at |-> "", message |-> None, value |-> None]
Raised(kind, at, message) ==
    [kind |-> kind, at |-> at, message |-> message, value |-> None]
Returned(v) == [kind |-> "value", at |-> "return", message |-> None, value |-> v]

\* What the transport has handed to a call of its response: the status with
\* the response object, the text once it was read.
NoResponse == [status |-> 0, raw |-> <<>>]

\* The locals of a call that has not begun.
Idle == [pc |-> "idle", group |-> "", name |-> "", endpoint |-> <<>>, method |-> "",
         cls |-> Cls(""), body |-> BodyNone, timestamp |-> <<>>,
         signature |-> NoSignature, sent |-> <<>>, response |-> NoResponse,
         status |-> 0, raw |-> <<>>, steps |-> <<>>, outcome |-> NoOutcome,
         arg |-> None]

\* headers = {"cb-access-sign": signature, "cb-access-timestamp": timestamp}
Headers(signature, timestamp) == [sign |-> signature, timestamp |-> timestamp]

\* A DELETE issued through session.get, as a copied branch would.
VerbPasted(method) == IF method = "DELETE" THEN "GET" ELSE method
\* match method: the session method each case calls.
Verb(method) ==
    CASE method = "DELETE" -> "DELETE"
      [] method = "GET" -> "GET"
      [] method = "POST" -> "POST"
      [] method = "PUT" -> "PUT"

\* The headers of the call sent in place of the session's.
PrepareHeadersReplacing(default, headers) == headers
\* aiohttp's ClientSession._prepare_headers: the session's default headers,
\* with the headers of the call added, a header of the call replacing a default
\* of the same name.
PrepareHeaders(default, headers) == headers @@ default

\* self._session.<verb>(url=endpoint, headers=headers, data=body): the request
\* the transport is handed; the session adds the headers it was built with.
Outbound(method, endpoint, headers, body) ==
    [verb |-> Verb(method), url |-> endpoint, headers |-> headers,
     session |-> session, wire |-> PrepareHeaders(session, headers), data |-> body]

\* The request issued again after it was issued.
SendTwice(sent, request) == Append(Append(sent, request), request)
\* One `async with self._session.<verb>(**params)`: one request on the wire.
Send(sent, request) == Append(sent, request)

\* _request up to its first suspension: the timestamp, the signature, the
\* request handed to the transport.
Begin(call, endpoint, method, cls, body) ==
    LET timestamp == now
        sg == _sign(endpoint, MethodStr(method), BodyOrEmpty(body), timestamp)
        c1 == [call EXCEPT !.endpoint = endpoint, !.method = method, !.cls = cls,
                           !.body = body, !.timestamp = timestamp,
                           !.steps = @ \o <<"now", "sign">>]
    IN IF sg.err # ""
       THEN [c1 EXCEPT !.pc = "done", !.outcome = Raised(sg.err, "sign", None)]
       ELSE [c1 EXCEPT !.pc = "awaiting",
                       !.signature = sg.signature,
                       !.sent = Send(@, Outbound(method, endpoint,
                                                 Headers(sg.signature, timestamp), body)),
                       !.steps = @ \o <<"send">>]

\* _request from the response on: the text, the classifier, and on its return
\* loads, decamelize and structure.  fits decides the decoding into a class
\* whose attributes the model does not detail.
Complete(call, status, raw, fits) ==
    LET cl == _try_raise(status, raw)
        c1 == [call EXCEPT !.pc = "done", !.status = status, !.raw = raw,
                           !.steps = @ \o <<"text", "_try_raise">>]
        l == loads(raw)
        c2 == [c1 EXCEPT !.steps = @ \o <<"loads">>]
        payload == decamelize(l.v)
        c3 == [c2 EXCEPT !.steps = @ \o <<"decamelize", "structure">>]
        st == IF Detailed(call.cls.name) THEN structure(payload, call.cls)
              ELSE IF fits THEN [err |-> "", v |-> Val("object", <<>>, 0, <<>>)]
              ELSE [err |-> "StructureError", v |-> None]
    IN CASE cl.err # "" -> [c1 EXCEPT !.outcome = Raised(cl.err, "_try_raise", cl.message)]
         [] cl.err = "" /\ l.err # "" -> [c2 EXCEPT !.outcome = Raised(l.err, "loads", None)]
         [] cl.err = "" /\ l.err = "" /\ st.err # "" ->
               [c3 EXCEPT !.outcome = Raised(st.err, "structure", None)]
         [] OTHER -> [c3 EXCEPT !.outcome = Returned(st.v)]

\* A public operation of a group up to its first suspension: the argument
\* check, self.<builder>(**params), self.<dispatcher>(path, verb, target,
\* body=body).
Invoke(op, params, valid) ==
    LET c0 == [Idle EXCEPT !.group = op.group, !.name = op.name]
        b == _buildup(params)
        c1 == [c0 EXCEPT !.steps = IF op.builder = "" THEN @ ELSE @ \o <<"_buildup">>]
    IN CASE op.validates /\ ~valid ->
               [c0 EXCEPT !.pc = "done", !.outcome = Raised("ValueError", "validate", None)]
         [] ~(op.validates /\ ~valid) /\ op.builder # "" /\ op.builder \notin EndpointAttrs ->
               [c0 EXCEPT !.pc = "done",
                          !.outcome = Raised("AttributeError", op.builder, None)]
         [] ~(op.validates /\ ~valid) /\ op.builder \in EndpointAttrs /\ b.err # "" ->
               [c1 EXCEPT !.pc = "done", !.outcome = Raised(b.err, "_buildup", None)]
         [] ~(op.validates /\ ~valid)
            /\ (op.builder = "" \/ (op.builder \in EndpointAttrs /\ b.err = ""))
            /\ op.dispatcher \notin EndpointAttrs ->
               [c1 EXCEPT !.pc = "done",
                          !.outcome = Raised("AttributeError", op.dispatcher, None)]
         [] OTHER -> Begin(c1, op.path, op.method, op.cls,
                           IF op.builder = "" THEN BodyNone ELSE Some(b.text))

(***************************************************************************)
(* Inputs.                                                                 *)
(***************************************************************************)
\* Secrets an endpoint may be constructed with: base64 with padding, a text
\* that is not base64 for its length (three characters, unpadded) and one that
\* is not base64 for a character outside the alphabet.
Secrets == { <<"c", "2", "U", "=">>, <<"c", "2", "V">>, <<"c", "2", "U", "=", "!">> }

\* The secret handed over where the passphrase belongs.
SessionHeadersWithSecret ==
    [accept |-> <<"a", "p", "p", "l", "i", "c", "a", "t", "i", "o", "n", "/",
                  "j", "s", "o", "n">>,
     content_type |-> <<"a", "p", "p", "l", "i", "c", "a", "t", "i", "o", "n", "/",
                        "j", "s", "o", "n">>,
     key |-> <<"k", "e", "y">>,
     passphrase |-> secret]
\* The headers connector() builds the session with.
SessionHeaders ==
    [accept |-> <<"a", "p", "p", "l", "i", "c", "a", "t", "i", "o", "n", "/",
                  "j", "s", "o", "n">>,
     content_type |-> <<"a", "p", "p", "l", "i", "c", "a", "t", "i", "o", "n", "/",
                        "j", "s", "o", "n">>,
     key |-> <<"k", "e", "y">>,
     passphrase |-> <<"p", "a", "s", "s">>]

Statuses == {200, 201, 400, 401, 403, 404, 418, 500}

\* Arguments of direct dispatches.
Endpoints == {P_fees, P_orders \o P_1}
Targets == {Cls("Account"), ListOf("Account")}
Bodies == {BodyNone, Some(<<>>), Some(<<"{", "}">>),
           Some(DumpsText(PyDict(<<Entry(K_limit, PyInt(100))>>)))}

K_sortedBy == <<"s", "o", "r", "t", "e", "d", "B", "y">>
K_after == <<"a", "f", "t", "e", "r">>
K_before == <<"b", "e", "f", "o", "r", "e">>
ParamKeys == <<K_limit, K_sortedBy, K_after, K_before, K_status>>

StrConv == Func(<<"s", "t", "r">>)
IntConv == Func(<<"i", "n", "t">>)

\* Keyword values: plain, absent, and (value, converter) pairs; among the
\* present ones those Python takes for false.
ParamValues ==
    { PyInt(100), None, PyBool(FALSE), PyInt(0), PyStr(<<>>), PyList(<<>>),
      PyTuple(<<PyBool(FALSE), StrConv>>),
      PyTuple(<<PyInt(0), StrConv>>),
      PyTuple(<<None, StrConv>>),
      PyTuple(<<PyInt(1), StrConv>>),
      PyTuple(<<PyStr(<<"7">>), IntConv>>),
      PyList(<<PyStr(<<"o", "p", "e", "n">>), PyStr(<<"d", "o", "n", "e">>)>>) }

\* Keyword parameter lists of up to MaxParams entries, in call order.
ParamLists ==
    UNION { { [i \in 1..n |-> Entry(ParamKeys[i], f[i])] : f \in [1..n -> ParamValues] }
            : n \in 0..MaxParams }

\* The keyword parameters the operations of the groups forward.
OpParams ==
    { <<>>,
      <<Entry(K_limit, PyInt(100))>>,
      <<Entry(K_before, PyTuple(<<None, StrConv>>)), Entry(K_limit, PyInt(100))>> }

(***************************************************************************)
(* The state machine.                                                      *)
(***************************************************************************)
CallIds == 1..NumCalls

\* No signing under way.
NoSigning == [pc |-> "off", a |-> <<>>, b |-> <<>>, first |-> <<>>, ra |-> NoSignature,
              rb |-> NoSignature, ea |-> "", eb |-> ""]

\* self._secret decoded once and kept in place of the text.
KeyCached == secret' = b64decode(secret).key /\ UNCHANGED <<session, converter>>
\* No statement of _request, _sign, _buildup or _try_raise assigns an attribute
\* of self.
Untouched == UNCHANGED <<secret, session, converter>>

\* No leaf under way.
NoLeaf == [pc |-> "off", type |-> "", wire |-> None, r |-> [err |-> "", v |-> None],
           out |-> None]

NoBuild == [pc |-> "off", params |-> <<>>, result |-> _buildup(<<>>),
            other |-> buildup(<<>>)]

\* Endpoint.__init__ for a secret, on the session connector() built.
Init ==
    /\ secret \in Secrets
    /\ session = SessionHeaders
    /\ converter = Hooks
    /\ clock = 1
    /\ calls = [c \in CallIds |-> Idle]
    /\ bu = NoBuild
    /\ signing = NoSigning
    /\ leaf = NoLeaf

\* The caller awaits one dispatch at a time.
MayStart(c) == \A o \in CallIds : calls[o].pc = "idle"

\* await self._request(endpoint, method, cls, body=body)
Dispatch(c) ==
    /\ MayStart(c)
    /\ \E endpoint \in Endpoints, method \in Methods, cls \in Targets, body \in Bodies :
          calls' = [calls EXCEPT ![c] =
                       Begin([Idle EXCEPT !.group = "Endpoint", !.name = "_request"],
                             endpoint, method, cls, body)]
    /\ Untouched
    /\ UNCHANGED <<clock, bu, signing, leaf>>

\* await connector.<group>.<operation>(...)
CallOp(c) ==
    /\ MayStart(c)
    /\ \E op \in Operations, params \in OpParams, valid \in BOOLEAN :
          calls' = [calls EXCEPT ![c] = Invoke(op, params, valid)]
    /\ Untouched
    /\ UNCHANGED <<clock, bu, signing, leaf>>

\* The transport yields the response: its status and its text.
Respond(c) ==
    /\ calls[c].pc = "awaiting"
    /\ \E status \in Statuses, raw \in RawBodies, fits \in BOOLEAN :
          calls' = [calls EXCEPT ![c] = Complete(calls[c], status, raw, fits)]
    /\ Untouched
    /\ UNCHANGED <<clock, bu, signing, leaf>>

\* The exception of the transport caught and raised again as an exchange error.
Reinterpreted(exc) == "CoinbaseError"
\* No try statement encloses the `async with` of _request nor the await of the
\* text: an exception raised there leaves _request as it is.
Propagated(exc) == exc

\* The transport raises instead (connection refused, timeout): the exception
\* leaves _request through the `async with`.
TransportFail(c) ==
    /\ calls[c].pc = "awaiting"
    /\ calls' = [calls EXCEPT ![c].pc = "done",
                              ![c].outcome = Raised(Propagated("ClientError"), "send", None)]
    /\ Untouched
    /\ UNCHANGED <<clock, bu, signing, leaf>>

\* The caller abandons the call at a suspension point (a timeout, a cancelled
\* task): CancelledError is raised into _request where it awaits.
Abandon(c) ==
    /\ calls[c].pc \in {"awaiting", "reading"}
    /\ calls' = [calls EXCEPT ![c].pc = "done",
                              ![c].outcome = Raised("CancelledError", "send", None)]
    /\ Untouched
    /\ UNCHANGED <<clock, bu, signing, leaf>>

\* The caller takes the result; the locals of the call are gone.
Return(c) ==
    /\ calls[c].pc = "done"
    /\ calls' = [calls EXCEPT ![c] = Idle]
    /\ Untouched
    /\ UNCHANGED <<clock, bu, signing, leaf>>

\* Time passes.
Tick ==
    /\ clock < MaxClock
    /\ clock' = clock + 1
    /\ UNCHANGED <<secret, session, converter, calls, bu, signing, leaf>>

Next ==
    \/ \E c \in CallIds : Dispatch(c)
    \/ \E c \in CallIds : CallOp(c)
    \/ \E c \in CallIds : Respond(c)
    \/ \E c \in CallIds : TransportFail(c)
    \/ \E c \in CallIds : Abandon(c)
    \/ \E c \in CallIds : Return(c)
    \/ Tick

Spec == Init /\ [][Next]_vars

(***************************************************************************)
(* The parameter builder on its own: every parameter list, built once.     *)
(***************************************************************************)
InitBuildup ==
    /\ secret \in Secrets
    /\ session = SessionHeaders
    /\ converter = Hooks
    /\ clock = 1
    /\ calls = [c \in CallIds |-> Idle]
    /\ signing = NoSigning
    /\ leaf = NoLeaf
    /\ \E params \in ParamLists : bu = [NoBuild EXCEPT !.pc = "ready", !.params = params]

\* body = self._buildup(**params), and self.buildup(**params) on an endpoint of
\* the other base class.
Build ==
    /\ bu.pc = "ready"
    /\ bu' = [bu EXCEPT !.pc = "built", !.result = _buildup(bu.params),
                        !.other = buildup(bu.params)]
    /\ UNCHANGED <<secret, session, converter, clock, calls, signing, leaf>>

NextBuildup == Build

SpecBuildup == InitBuildup /\ [][NextBuildup]_vars

(***************************************************************************)
(* The signer on its own: two tuples signed one after the other, by the    *)
(* same endpoint or by endpoints constructed with different secrets.       *)
(***************************************************************************)
\* Paths, verbs, bodies and timestamps handed to _sign; a caller's identifier
\* put into a path may hold any character.
SignEndpoints == {P_fees, P_fees \o <<"{", "}">>, P_orders}
SignMethods == {"GET", "POST"}
SignBodies == {<<>>, <<"{", "}">>}
SignTimestamps == {IntStr(n) \o <<".", "0">> : n \in 1..MaxClock}
SignInputs ==
    [endpoint : SignEndpoints, method : SignMethods, body : SignBodies,
     timestamp : SignTimestamps]

InitSign ==
    /\ secret \in Secrets
    /\ session = SessionHeaders
    /\ converter = Hooks
    /\ clock = 1
    /\ calls = [c \in CallIds |-> Idle]
    /\ bu = NoBuild
    /\ leaf = NoLeaf
    /\ \E a \in SignInputs, b \in SignInputs :
          signing = [NoSigning EXCEPT !.pc = "first", !.a = a, !.b = b]

\* self._sign(endpoint=..., method=str(method), body=..., timestamp=...)
SignFirst ==
    /\ signing.pc = "first"
    /\ LET r == _sign(signing.a.endpoint, MethodStr(signing.a.method),
                      signing.a.body, signing.a.timestamp)
       IN signing' = [signing EXCEPT !.pc = "second", !.first = secret,
                                     !.ra = r.signature, !.ea = r.err]
    /\ Untouched
    /\ UNCHANGED <<clock, calls, bu, leaf>>

\* Endpoint(secret, session): the second tuple is signed by an endpoint
\* constructed with another secret.
Construct ==
    /\ signing.pc = "second"
    /\ signing.first = secret
    /\ secret' \in Secrets \ {secret}
    /\ UNCHANGED <<session, converter, clock, calls, bu, signing, leaf>>

SignSecond ==
    /\ signing.pc = "second"
    /\ LET r == _sign(signing.b.endpoint, MethodStr(signing.b.method),
                      signing.b.body, signing.b.timestamp)
       IN signing' = [signing EXCEPT !.pc = "done", !.rb = r.signature, !.eb = r.err]
    /\ Untouched
    /\ UNCHANGED <<clock, calls, bu, leaf>>

NextSign ==
    \/ SignFirst
    \/ Construct
    \/ SignSecond

SpecSign == InitSign /\ [][NextSign]_vars

(***************************************************************************)
(* Encoding and decoding: a body built from parameters named as call sites *)
(* name them, dispatched, and a 200 answer decoded into the target; the    *)
(* answer is a document of the exchange or the resource that was sent.     *)
(***************************************************************************)
\* str.upper() on one character.
ToUpper(ch) == IF IsLower(ch) THEN Upper[CHOOSE i \in DOMAIN Lower : Lower[i] = ch]
               ELSE ch

RECURSIVE CamelFrom(_, _)
\* An underscore-joined name as a call site writes it in camel style.
CamelFrom(s, i) ==
    IF i > Len(s) THEN <<>>
    ELSE IF s[i] = "_" /\ i < Len(s) THEN <<ToUpper(s[i + 1])>> \o CamelFrom(s, i + 2)
    ELSE <<s[i]>> \o CamelFrom(s, i + 1)

\* The name in a style: camel (profileId), capitalized (ProfileId), or
\* underscore-joined already.
Styles == {"camel", "capitalized", "underscored"}
Styled(s, style) ==
    CASE style = "camel" -> CamelFrom(s, 1)
      [] style = "capitalized" -> <<ToUpper(s[1])>> \o Tail(CamelFrom(s, 1))
      [] OTHER -> s

RECURSIVE CallSite(_, _)
\* A document with the keys of its mappings, nested ones too, in a style.
CallSite(v, style) ==
    CASE v.t = "dict" ->
            [v EXCEPT !.items = [i \in DOMAIN v.items |->
                Entry(Styled(v.items[i].k, style), CallSite(Plain(v.items[i]), style))]]
      [] v.t = "list" ->
            [v EXCEPT !.items = [i \in DOMAIN v.items |-> CallSite(v.items[i], style)]]
      [] OTHER -> v

\* What a call site builds and the target it asks for.
CodecCalls ==
    { [params |-> CallSite(AccountDoc, style).items, cls |-> Cls("Account")]
        : style \in Styles }
    \cup { [params |-> CallSite(CurrencyDoc, style).items, cls |-> Cls("Currency")]
             : style \in Styles }
    \cup { [params |-> <<>>, cls |-> cls]
             : cls \in {Cls("Hold"), ListOf("Account")} }

\* The texts a 200 answer may carry.
CodecBodies ==
    {DumpsText(d) : d \in CodecDocs \cup {AccountDoc, PartialAccountDoc,
                                          BadAmountAccountDoc, AccountListDoc}}
    \cup {NotJson}

\* body = self._buildup(**params); await self._request(path, verb, cls, body=body)
BuildAndDispatch(c) ==
    /\ MayStart(c)
    /\ \E call \in CodecCalls :
          LET b == _buildup(call.params)
          IN /\ b.err = ""
             /\ bu' = [pc |-> "built", params |-> call.params, result |-> b,
                      other |-> buildup(call.params)]
             /\ calls' = [calls EXCEPT ![c] =
                    Begin([Idle EXCEPT !.group = "Endpoint", !.name = "_request"],
                          P_currencies, "POST", call.cls, Some(b.text))]
    /\ Untouched
    /\ UNCHANGED <<clock, signing, leaf>>

\* The exchange answers 200 with a document.
RespondOk(c) ==
    /\ calls[c].pc = "awaiting"
    /\ \E raw \in CodecBodies :
          calls' = [calls EXCEPT ![c] = Complete(calls[c], 200, raw, TRUE)]
    /\ Untouched
    /\ UNCHANGED <<clock, bu, signing, leaf>>

\* The exchange answers 200 with the resource it was sent.
Echo(c) ==
    /\ calls[c].pc = "awaiting"
    /\ calls' = [calls EXCEPT ![c] =
                    Complete(calls[c], 200, calls[c].sent[1].data.s, TRUE)]
    /\ Untouched
    /\ UNCHANGED <<clock, bu, signing, leaf>>

NextCodec ==
    \/ \E c \in CallIds : BuildAndDispatch(c)
    \/ \E c \in CallIds : RespondOk(c)
    \/ \E c \in CallIds : Echo(c)
    \/ \E c \in CallIds : Return(c)
    \/ Tick

SpecCodec == Init /\ [][NextCodec]_vars

(***************************************************************************)
(* Concurrent dispatches on one endpoint object: the caller starts a call  *)
(* while others are suspended, and the transport resumes them in any       *)
(* order.  _request suspends twice: for the response, and for its text.    *)
(***************************************************************************)
\* What the concurrent callers ask for.
ConcurrentCalls ==
    { [cls |-> Cls("Account"), body |-> BodyNone],
      [cls |-> ListOf("Account"), body |-> Some(<<"{", "}">>)] }
ConcurrentStatuses == {200, 500}
ConcurrentBodies == {DumpsText(AccountDoc), DumpsText(ErrorDoc)}

InitConcurrent ==
    /\ Init
    /\ secret = <<"c", "2", "U", "=">>

\* await self._request(...), others being suspended or not.
Start(c) ==
    /\ calls[c].pc = "idle"
    /\ \E call \in ConcurrentCalls :
          calls' = [calls EXCEPT ![c] =
                       Begin([Idle EXCEPT !.group = "Endpoint", !.name = "_request"],
                             P_accounts, "GET", call.cls, call.body)]
    /\ Untouched
    /\ UNCHANGED <<clock, bu, signing, leaf>>

\* `async with self._session.<verb>(**params) as response` resumes: the
\* response, with its status, is bound in the call.
Answer(c) ==
    /\ calls[c].pc = "awaiting"
    /\ \E status \in ConcurrentStatuses :
          calls' = [calls EXCEPT ![c].pc = "reading", ![c].response.status = status]
    /\ Untouched
    /\ UNCHANGED <<clock, bu, signing, leaf>>

\* The response of a call whichever it is: the one bound last in any call.
ResponseOfAny(frames, c) ==
    IF \E o \in CallIds \ {c} : frames[o].response.status # 0
    THEN frames[CHOOSE o \in CallIds \ {c} : frames[o].response.status # 0].response
    ELSE frames[c].response
\* `response` and `raw` are locals of the coroutine: what a call reads is what
\* was bound in it.
Response(frames, c) == frames[c].response

\* `raw = await response.text()` resumes, and the call runs to its end.
Read(c) ==
    /\ calls[c].pc = "reading"
    /\ \E raw \in ConcurrentBodies :
          LET frames == [calls EXCEPT ![c].response.raw = raw]
          IN calls' = [frames EXCEPT ![c] =
                          Complete(frames[c], Response(frames, c).status,
                                   Response(frames, c).raw, TRUE)]
    /\ Untouched
    /\ UNCHANGED <<clock, bu, signing, leaf>>

NextConcurrent ==
    \/ \E c \in CallIds : Start(c)
    \/ \E c \in CallIds : Answer(c)
    \/ \E c \in CallIds : Read(c)
    \/ \E c \in CallIds : Abandon(c)
    \/ \E c \in CallIds : Return(c)
    \/ Tick

SpecConcurrent == InitConcurrent /\ [][NextConcurrent]_vars

(***************************************************************************)
(* The operations that check an argument before anything else:             *)
(* Products.get_book its level, Profiles.rename the new name.              *)
(***************************************************************************)
K_level == <<"l", "e", "v", "e", "l">>

\* The check left out.
Unchecked(op, arg) == TRUE
\* `if level not in (1, 2, 3)` and `if name in ("default", "margin")`: the
\* argument passes.  Membership compares with ==, and True == 1.
Checked(op, arg) ==
    CASE op.group = "Products" /\ op.name = "get_book" ->
            arg.t \in {"int", "bool"} /\ arg.n \in {1, 2, 3}
      [] op.group = "Profiles" /\ op.name = "rename" ->
            ~(arg.t = "str" /\ arg.s \in {<<"d", "e", "f", "a", "u", "l", "t">>,
                                          <<"m", "a", "r", "g", "i", "n">>})
      [] OTHER -> TRUE

\* Levels and names a caller may pass.
CheckedArgs(op) ==
    IF op.name = "get_book"
    THEN {PyInt(0), PyInt(1), PyInt(2), PyInt(3), PyInt(4), PyBool(TRUE), PyBool(FALSE),
          PyStr(<<"1">>)}
    ELSE {PyStr(<<"d", "e", "f", "a", "u", "l", "t">>), PyStr(<<"m", "a", "r", "g", "i", "n">>),
          PyStr(<<"D", "e", "f", "a", "u", "l", "t">>), PyStr(<<"m", "a", "i", "n">>)}

\* The keyword parameters the operation hands to its builder.
CheckedParams(op, arg) ==
    IF op.name = "get_book" THEN <<Entry(K_level, arg)>>
    ELSE <<Entry(K_profile_id, PyStr(<<"1">>)), Entry(K_name, arg)>>

\* await connector.products.get_book(product_id, level) or
\* await connector.profiles.rename(profile_id, name)
CallChecked(c) ==
    /\ MayStart(c)
    /\ \E op \in {o \in Operations : o.validates} :
          \E arg \in CheckedArgs(op) :
             calls' = [calls EXCEPT ![c] =
                          [Invoke(op, CheckedParams(op, arg), Checked(op, arg))
                              EXCEPT !.arg = arg]]
    /\ Untouched
    /\ UNCHANGED <<clock, bu, signing, leaf>>

NextChecked ==
    \/ \E c \in CallIds : CallChecked(c)
    \/ \E c \in CallIds : Respond(c)
    \/ \E c \in CallIds : Return(c)
    \/ Tick

SpecChecked == Init /\ [][NextChecked]_vars

(***************************************************************************)
(* Products.get_ohlc for every member of types.Period.                     *)
(***************************************************************************)
K_period == <<"p", "e", "r", "i", "o", "d">>
K_start == <<"s", "t", "a", "r", "t">>
K_end == <<"e", "n", "d">>

\* class Period(Enum)
Period ==
    { [name |-> <<"M", "i", "n", "u", "t", "e">>, value |-> 60],
      [name |-> <<"M", "i", "n", "u", "t", "e", "5">>, value |-> 300],
      [name |-> <<"M", "i", "n", "u", "t", "e", "1", "5">>, value |-> 900],
      [name |-> <<"H", "o", "u", "r">>, value |-> 3600],
      [name |-> <<"H", "o", "u", "r", "6">>, value |-> 21600],
      [name |-> <<"D", "a", "y">>, value |-> 81400] }

\* await connector.products.get_ohlc(product_id, period=period), start and
\* end left at None.
CallOhlc(c) ==
    /\ MayStart(c)
    /\ \E op \in {o \in Products : o.name = "get_ohlc"}, m \in Period :
          calls' = [calls EXCEPT ![c] =
                       [Invoke(op, << Entry(K_period, PyTuple(<<PyEnum(m), IntConv>>)),
                                      Entry(K_start, PyTuple(<<None, StrConv>>)),
                                      Entry(K_end, PyTuple(<<None, StrConv>>)) >>, TRUE)
                           EXCEPT !.arg = PyEnum(m)]]
    /\ Untouched
    /\ UNCHANGED <<clock, bu, signing, leaf>>

NextOhlc ==
    \/ \E c \in CallIds : CallOhlc(c)
    \/ \E c \in CallIds : Respond(c)
    \/ \E c \in CallIds : Return(c)
    \/ Tick

SpecOhlc == Init /\ [][NextOhlc]_vars

(***************************************************************************)
(* One leaf through the hooks of the converter: an amount decoded and      *)
(* encoded again, a timestamp decoded.                                     *)
(***************************************************************************)
RECURSIVE Texts(_, _)
\* The texts of 1..n characters over an alphabet.
Texts(alphabet, n) ==
    IF n = 0 THEN {}
    ELSE LET shorter == Texts(alphabet, n - 1)
         IN {<<ch>> : ch \in alphabet}
            \cup shorter \cup {Append(s, ch) : s \in shorter, ch \in alphabet}

\* Amounts as the exchange writes them, and texts that are no amounts.
AmountWires ==
    {PyStr(s) : s \in Texts({"0", "1", "5", "."}, MaxDigits)}
    \cup { PyStr(<<"1", "2", ".", "3", "4", "5", "0", "0", "0", "0", "0", "0", "0", "0",
                   "0", "0", "0", "0", "0", "0", "1">>),
           PyStr(<<"0", ".", "0", "0", "0", "0", "0", "0", "1">>),
           PyStr(<<"0", ".", "0", "0", "0", "0", "0", "0", "1", "0">>),
           PyStr(<<"1", "0", ".", "5", "0">>),
           PyStr(<<"t", "e", "n">>), PyStr(<<>>) }

\* Timestamps as the exchange writes them, texts that are none, and values
\* that are no text.
TimeWires ==
    { PyStr(<<"2", "0", "2", "1", "-", "0", "1", "-", "3", "1">>),
      PyStr(<<"2", "0", "2", "1", "-", "1", "3", "-", "0", "1">>),
      PyStr(<<"2", "0", "2", "1", "-", "0", "2", "-", "3", "0">>),
      PyStr(<<"2", "0", "2", "1", "-", "0", "1", "-", "0">>),
      PyStr(<<"2", "0", "2", "1", "/", "0", "1", "/", "3", "1">>),
      PyStr(<<"n", "o", "w">>), PyStr(<<>>),
      None, PyInt(0), PyInt(1612051200), PyBool(TRUE), PyList(<<>>),
      PyDict(<<>>) }

InitLeaf ==
    /\ secret \in Secrets
    /\ session = SessionHeaders
    /\ converter = Hooks
    /\ clock = 1
    /\ calls = [c \in CallIds |-> Idle]
    /\ bu = NoBuild
    /\ signing = NoSigning
    /\ \/ \E wire \in AmountWires :
             leaf = [NoLeaf EXCEPT !.pc = "wire", !.type = "Decimal", !.wire = wire]
       \/ \E wire \in TimeWires :
             leaf = [NoLeaf EXCEPT !.pc = "wire", !.type = "datetime", !.wire = wire]

\* self._converter.structure(wire, Decimal) or (wire, datetime): the hook
\* registered for the type.
StructureHook ==
    /\ leaf.pc = "wire"
    /\ leaf' = [leaf EXCEPT !.pc = "structured", !.r = StructureLeaf(leaf.wire, leaf.type)]
    /\ UNCHANGED <<secret, session, converter, clock, calls, bu, signing>>

\* self._converter.unstructure(value) of a Decimal.  The encoding of a
\* datetime reads the zone of the host and is left out.
UnstructureHook ==
    /\ leaf.pc = "structured"
    /\ leaf.type = "Decimal"
    /\ leaf.r.err = ""
    /\ leaf' = [leaf EXCEPT !.pc = "unstructured", !.out = _unstructure_decimal(leaf.r.v)]
    /\ UNCHANGED <<secret, session, converter, clock, calls, bu, signing>>

NextLeaf == StructureHook \/ UnstructureHook

SpecLeaf == InitLeaf /\ [][NextLeaf]_vars

(***************************************************************************)
(* Properties.                                                             *)
(***************************************************************************)
Ran(call, step) == \E i \in DOMAIN call.steps : call.steps[i] = step

\* The call went through _request up to the classifier.
Classified(call) == call.pc = "done" /\ Ran(call, "_try_raise")

\* The literal upper-case verb.
VerbLiteral(verb) ==
    CASE verb = "DELETE" -> <<"D", "E", "L", "E", "T", "E">>
      [] verb = "GET" -> <<"G", "E", "T">>
      [] verb = "POST" -> <<"P", "O", "S", "T">>
      [] verb = "PUT" -> <<"P", "U", "T">>

\* The error kind the specification derives from a status, by the name of the
\* exception class that stands for it; no class stands for Unclassified.
KindOf(status) ==
    CASE status = 400 -> "InvalidRequestError"
      [] status = 401 -> "InvalidKeyError"
      [] status = 403 -> "NoAccessError"
      [] status = 404 -> "NotFoundError"
      [] status = 500 -> "CoinbaseError"
      [] OTHER -> "Unclassified"

ExchangeKinds == {"InvalidRequestError", "InvalidKeyError", "NoAccessError",
                  "NotFoundError", "CoinbaseError", "Unclassified"}

Occurs(sub, text) ==
    \E i \in 1..(Len(text) - Len(sub) + 1) : SubSeq(text, i, i + Len(sub) - 1) = sub

\* C1: every request a dispatch issues carries in cb-access-sign the signature
\* over exactly the timestamp it carries in cb-access-timestamp, the verb it is
\* issued with, its url and its payload, the empty text standing for no payload.
C1_SignatureCoversRequest ==
    \A c \in CallIds : \A i \in DOMAIN calls[c].sent :
        LET r == calls[c].sent[i]
        IN r.headers.sign =
              Hmac(b64decode(secret).key,
                   r.headers.timestamp \o VerbLiteral(r.verb) \o r.url
                   \o (IF r.data.some THEN r.data.s ELSE <<>>))

\* A DELETE without a body is on the wire.
C1_Witness ==
    \E c \in CallIds :
        /\ calls[c].pc = "awaiting"
        /\ Len(calls[c].sent) = 1
        /\ calls[c].sent[1].verb = "DELETE"
        /\ ~calls[c].sent[1].data.some

\* C2: the signed message is timestamp, method, path, body concatenated in that
\* order with nothing between them; the method is the literal upper-case verb;
\* without a body nothing follows the path.
C2_MessageLayout ==
    \A c \in CallIds :
        calls[c].signature # NoSignature =>
            LET call == calls[c]
                head == call.timestamp \o VerbLiteral(call.method) \o call.endpoint
            IN /\ call.signature.msg = head \o (IF call.body.some THEN call.body.s ELSE <<>>)
               /\ ~call.body.some => call.signature.msg = head
               /\ Len(call.signature.msg) =
                     Len(call.timestamp) + Len(VerbLiteral(call.method))
                     + Len(call.endpoint) + (IF call.body.some THEN Len(call.body.s) ELSE 0)

\* A POST without a body was signed.
C2_Witness ==
    \E c \in CallIds :
        /\ calls[c].signature # NoSignature
        /\ calls[c].method = "POST"
        /\ ~calls[c].body.some
        /\ calls[c].signature.msg # <<>>

\* C3: for the body {"message": m} the classifier yields no error for 200,
\* InvalidRequest for 400, InvalidCredential for 401, AccessDenied for 403,
\* NotFound for 404, ServerError for 500 and Unclassified for 418, each error
\* carrying m.
C3_ClassificationTable ==
    \A c \in CallIds :
        (Classified(calls[c]) /\ calls[c].raw = DumpsText(ErrorDoc)
         /\ calls[c].status \in {200, 400, 401, 403, 404, 500, 418}) =>
            IF calls[c].status = 200 THEN calls[c].outcome.at # "_try_raise"
            ELSE /\ calls[c].outcome.at = "_try_raise"
                 /\ calls[c].outcome.kind = KindOf(calls[c].status)
                 /\ calls[c].outcome.message = Boom

\* C4: a dispatch answered with a status other than 200, 400, 401, 403, 404 and
\* 500 fails as Unclassified, and a dispatch returns a value only for 200.
C4_OtherStatusUnclassified ==
    \A c \in CallIds :
        Classified(calls[c]) =>
            /\ calls[c].status \notin {200, 400, 401, 403, 404, 500} =>
                  calls[c].outcome.kind = "Unclassified"
            /\ calls[c].outcome.kind = "value" => calls[c].status = 200

\* Texts that are not JSON, or JSON without a message field.
MessageLess ==
    {NotJson} \cup {DumpsText(d) : d \in {e \in JsonDocs :
                                            e.t # "dict" \/ ~HasKey(e, K_message)}}

\* C5: a non-200 response whose body is not JSON, or has no message field, still
\* fails with the error kind of its status, the raw body text as the message.
C5_MalformedErrorBody ==
    \A c \in CallIds :
        (Classified(calls[c]) /\ calls[c].status # 200 /\ calls[c].raw \in MessageLess) =>
            /\ calls[c].outcome.at = "_try_raise"
            /\ calls[c].outcome.kind = KindOf(calls[c].status)
            /\ calls[c].outcome.message = PyStr(calls[c].raw)

\* C6: every public operation of every group, called with valid arguments on a
\* client with a valid secret, builds its body with its base class's builder and
\* issues exactly one request through its base class's dispatcher.
C6_OperationsDispatch ==
    \A c \in CallIds :
        (/\ calls[c].pc = "done"
         /\ calls[c].group \notin {"", "Endpoint"}
         /\ calls[c].outcome.at # "validate"
         /\ b64decode(secret).err = "") =>
            /\ calls[c].outcome.kind # "AttributeError"
            /\ Ran(calls[c], "send")
            /\ Len(calls[c].sent) = 1

\* C7: a dispatch answered with a status other than 200 fails with the
\* classified error, and neither the JSON parse nor the key translation nor the
\* structural decoding runs for it.
C7_NonSuccessNeverDecoded ==
    \A c \in CallIds :
        (Classified(calls[c]) /\ calls[c].status # 200) =>
            /\ calls[c].outcome.at = "_try_raise"
            /\ calls[c].outcome.kind \in ExchangeKinds
            /\ ~Ran(calls[c], "loads")
            /\ ~Ran(calls[c], "decamelize")
            /\ ~Ran(calls[c], "structure")

\* C8: a dispatch issues at most one HTTP request whatever its outcome, and
\* exactly one once it got as far as the transport.
C8_AtMostOneRequest ==
    \A c \in CallIds :
        /\ Len(calls[c].sent) <= 1
        /\ Ran(calls[c], "send") => Len(calls[c].sent) = 1

\* A dispatch that ended in a decoding failure after an exchange answer.
C8_Witness ==
    \E c \in CallIds :
        /\ calls[c].pc = "done"
        /\ calls[c].outcome.at = "structure"
        /\ Len(calls[c].sent) = 1

\* The closed taxonomy: a value, or CredentialError (signing), an exchange
\* error kind (the classifier), DecodeError (the success path), TransportError.
InTaxonomy(o) ==
    \/ o.kind = "value"
    \/ o.at = "sign" /\ o.kind = "binascii.Error"
    \/ o.at = "_try_raise" /\ o.kind \in ExchangeKinds
    \/ o.at \in {"loads", "structure"}
    \/ o.at = "send"

\* C9: every dispatch ends in a decoded value or in exactly one error of the
\* closed taxonomy.
C9_ClosedTaxonomy ==
    \A c \in CallIds :
        (calls[c].pc = "done" /\ Ran(calls[c], "sign")) => InTaxonomy(calls[c].outcome)

\* "No value": None, or a (value, converter) pair whose value is None.
NoValue(v) ==
    \/ v.t = "none"
    \/ v.t = "tuple" /\ Len(v.items) = 2 /\ v.items[1].t = "none"

WireKey(key) == <<"\"">> \o DecamelizeKey(key) \o <<"\"", ":">>

\* C10: the builder emits no key for an absent value, as a key or as null, does
\* not invoke the converter of an absent value, emits the key of every present
\* value, and emits "{}" when every parameter is absent or none is given.
C10_AbsentOmitted ==
    bu.pc = "built" =>
        LET absent == {bu.params[i].k : i \in {j \in DOMAIN bu.params :
                                                  NoValue(bu.params[j])}}
            r == bu.result
        IN /\ \A i \in DOMAIN r.processed : r.processed[i].k \notin absent
           /\ \A i \in DOMAIN r.invoked : r.invoked[i] \notin absent
           /\ r.err = "" =>
                 /\ \A i \in DOMAIN bu.params :
                       Occurs(WireKey(bu.params[i].k), r.text) <=> ~NoValue(bu.params[i])
                 /\ ~Occurs(<<"n", "u", "l", "l">>, r.text)
                 /\ (\A i \in DOMAIN bu.params : NoValue(bu.params[i])) =>
                       r.text = <<"{", "}">>

\* {limit: 100, sortedBy: None, after: (None, str)} was built.
C10_Witness ==
    /\ bu.pc = "built"
    /\ Len(bu.params) = 3
    /\ Plain(bu.params[1]) = PyInt(100)
    /\ Plain(bu.params[2]) = None
    /\ Plain(bu.params[3]) = PyTuple(<<None, StrConv>>)
    /\ bu.result.err = ""
    /\ bu.result.text = <<"{", "\"", "l", "i", "m", "i", "t", "\"", ":", "1", "0", "0", "}">>

\* The texts of a request as the transport puts it on the wire, the signature
\* header apart.
RequestTexts(r) ==
    {r.url, r.headers.timestamp} \cup {r.wire[h] : h \in DOMAIN r.wire \ {"sign"}}
    \cup (IF r.data.some THEN {r.data.s} ELSE {})

\* C11: no request on the wire holds the secret or the key decoded from it in its
\* url, its headers or its payload; what it holds of them is the signature, the
\* digest keyed with the decoded secret.
C11_SecretNeverSent ==
    \A c \in CallIds : \A i \in DOMAIN calls[c].sent :
        LET r == calls[c].sent[i]
        IN /\ \A text \in RequestTexts(r) :
                 /\ ~Occurs(secret, text)
                 /\ ~Occurs(b64decode(secret).key, text)
           /\ r.headers.sign.key = b64decode(secret).key

\* A request with a payload is on the wire.
C11_Witness ==
    \E c \in CallIds :
        /\ calls[c].pc = "awaiting"
        /\ Len(calls[c].sent) = 1
        /\ calls[c].sent[1].data.some
        /\ calls[c].sent[1].data.s # <<>>
        /\ calls[c].sent[1].wire.passphrase # <<>>

HeaderNames == {"accept", "content_type", "key", "passphrase", "sign", "timestamp"}

ApplicationJson ==
    <<"a", "p", "p", "l", "i", "c", "a", "t", "i", "o", "n", "/", "j", "s", "o", "n">>

\* C12: every request carries the six headers: the key and the passphrase the
\* session was built with, the signature and the timestamp computed by its call,
\* accept and content-type application/json; the headers of the call are added to
\* the session's and replace or drop none.
C12_SixHeaders ==
    \A c \in CallIds : \A i \in DOMAIN calls[c].sent :
        LET r == calls[c].sent[i]
        IN /\ DOMAIN r.wire = HeaderNames
           /\ r.wire.accept = ApplicationJson
           /\ r.wire.content_type = ApplicationJson
           /\ r.wire.key = <<"k", "e", "y">>
           /\ r.wire.passphrase = <<"p", "a", "s", "s">>
           /\ r.wire.sign = calls[c].signature
           /\ r.wire.timestamp = calls[c].timestamp
           /\ calls[c].signature # NoSignature

\* A PUT carrying a payload is on the wire at the second reading of the clock.
C12_Witness ==
    \E c \in CallIds :
        /\ calls[c].pc = "awaiting"
        /\ Len(calls[c].sent) = 1
        /\ calls[c].sent[1].verb = "PUT"
        /\ calls[c].sent[1].data.some
        /\ calls[c].timestamp = <<"2", ".", "0">>

\* RFC 4648 base64: characters of the alphabet in whole quads, the last quad
\* padded with one or two "=".
IsBase64(s) ==
    /\ Len(s) % 4 = 0
    /\ \A i \in DOMAIN s :
          \/ IsB64Char(s[i])
          \/ s[i] = "=" /\ i > Len(s) - 2 /\ i > 2 /\ \A j \in i..Len(s) : s[j] = "="

\* C13: with a stored secret that is not valid base64 a dispatch fails in signing
\* with the credential error, at once, and issues no request.
C13_MalformedSecretRejected ==
    \A c \in CallIds :
        (Ran(calls[c], "sign") /\ ~IsBase64(secret)) =>
            /\ calls[c].pc = "done"
            /\ calls[c].outcome.at = "sign"
            /\ calls[c].outcome.kind = "binascii.Error"
            /\ calls[c].sent = <<>>
            /\ ~Ran(calls[c], "send")

\* Both tuples were signed, each with a signature for result.
BothSigned == signing.pc = "done" /\ signing.ea = "" /\ signing.eb = ""

\* timestamp, method, path and body written one after the other.
Concatenated(x) == x.timestamp \o VerbLiteral(x.method) \o x.endpoint \o x.body

\* A tuple whose components can be told apart in the concatenation: a decimal
\* timestamp, a path that opens with "/" and holds no "{", a body that is empty
\* or opens with "{".
WellFormed(x) ==
    /\ x.timestamp # <<>>
    /\ \A i \in DOMAIN x.timestamp : IsDigit(x.timestamp[i]) \/ x.timestamp[i] = "."
    /\ x.endpoint # <<>> /\ x.endpoint[1] = "/"
    /\ \A i \in DOMAIN x.endpoint : x.endpoint[i] # "{"
    /\ x.body = <<>> \/ x.body[1] = "{"

\* C14 as stated: for a fixed secret, two tuples that differ in any component
\* never yield the same signed message, nor the same signature.
C14_DistinctTuplesDistinctMessages ==
    (BothSigned /\ signing.first = secret /\ signing.a # signing.b) =>
        /\ signing.ra.msg # signing.rb.msg
        /\ signing.ra # signing.rb

\* C14, amended: for a fixed secret two tuples have the same signature exactly
\* when their concatenations timestamp, method, path, body are the same text;
\* tuples that differ in any component have different signatures when the path
\* holds no "{" and the body is empty or opens with "{".
C14_SignatureOfConcatenation ==
    (BothSigned /\ signing.first = secret) =>
        /\ signing.ra = signing.rb <=> Concatenated(signing.a) = Concatenated(signing.b)
        /\ (WellFormed(signing.a) /\ WellFormed(signing.b) /\ signing.a # signing.b) =>
              signing.ra # signing.rb

\* Two well-formed tuples that differ in the body alone were signed with one
\* secret.
C14_Witness ==
    /\ BothSigned
    /\ signing.first = secret
    /\ WellFormed(signing.a) /\ WellFormed(signing.b)
    /\ signing.a.body # signing.b.body
    /\ [signing.a EXCEPT !.body = <<>>] = [signing.b EXCEPT !.body = <<>>]
    /\ signing.ra # signing.rb

\* The inputs of the two applications differ in exactly one place.
OneInputDiffers ==
    Cardinality({n \in {"secret", "endpoint", "method", "body", "timestamp"} :
                    CASE n = "secret" -> signing.first # secret
                      [] n = "endpoint" -> signing.a.endpoint # signing.b.endpoint
                      [] n = "method" -> signing.a.method # signing.b.method
                      [] n = "body" -> signing.a.body # signing.b.body
                      [] n = "timestamp" -> signing.a.timestamp # signing.b.timestamp}) = 1

\* C15: signing is a function of secret, path, method, body and timestamp: the
\* same five inputs give the same result, and a change of any one of the five
\* alone gives another signature.
C15_SigningPure ==
    signing.pc = "done" =>
        /\ (signing.first = secret /\ signing.a = signing.b) =>
              signing.ra = signing.rb /\ signing.ea = signing.eb
        /\ (BothSigned /\ OneInputDiffers) => signing.ra # signing.rb

\* The exception classes endpoint.py raises for what the exchange reports.
ExchangeErrors == {"InvalidRequestError", "InvalidKeyError", "NoAccessError",
                   "NotFoundError", "CoinbaseError"}

\* 200 answers that do not fit the target asked for: no JSON, a required field
\* missing (at the top or in a nested record), an amount or a timestamp that
\* does not convert.
Mismatched(raw, cls) ==
    \/ raw = NotJson
    \/ cls = Cls("Account") /\ raw \in {DumpsText(PartialAccountDoc),
                                        DumpsText(BadAmountAccountDoc)}
    \/ cls = Cls("Hold") /\ raw = DumpsText(BadTimeHoldDoc)
    \/ cls = Cls("Currency") /\ raw = DumpsText(PartialCurrencyDoc)

RECURSIVE Populated(_, _)
\* The record holds every attribute of its class, nested records too.
Populated(v, name) ==
    /\ v.t = "object"
    /\ Len(v.items) = Len(Fields(name))
    /\ \A i \in DOMAIN Fields(name) :
          LET f == Fields(name)[i]
          IN /\ v.items[i].k = f.name
             /\ Detailed(f.type) => Populated(Plain(v.items[i]), f.type)
             /\ ~f.opt => v.items[i].t # "none"

\* C16: a 200 answer that does not fit the target fails the dispatch in the
\* decoding, with an error that is none of the exchange's, and returns nothing;
\* whatever a dispatch returns for a class is a fully populated record.
C16_DecodeMismatchFails ==
    \A c \in CallIds :
        (calls[c].pc = "done" /\ calls[c].status = 200) =>
            /\ Mismatched(calls[c].raw, calls[c].cls) =>
                  /\ calls[c].outcome.at \in {"loads", "structure"}
                  /\ calls[c].outcome.kind \notin ExchangeErrors \cup {"value", ""}
                  /\ calls[c].outcome.value = None
            /\ (calls[c].outcome.kind = "value" /\ ~calls[c].cls.list) =>
                  Populated(calls[c].outcome.value, calls[c].cls.name)
            /\ (calls[c].outcome.kind = "value" /\ calls[c].cls.list) =>
                  \A i \in DOMAIN calls[c].outcome.value.items :
                      Populated(calls[c].outcome.value.items[i], calls[c].cls.name)

\* A currency whose nested details lack a field was answered and the dispatch
\* failed in the decoding.
C16_Witness ==
    \E c \in CallIds :
        /\ calls[c].pc = "done"
        /\ calls[c].status = 200
        /\ calls[c].cls = Cls("Currency")
        /\ calls[c].raw = DumpsText(PartialCurrencyDoc)
        /\ calls[c].outcome.at = "structure"

RECURSIVE Underscored(_)
\* The lower-case words of a name joined by underscores: every capital opens a
\* word.
Underscored(s) ==
    IF s = <<>> THEN <<>>
    ELSE LET init == SubSeq(s, 1, Len(s) - 1)
             last == s[Len(s)]
         IN Underscored(init)
            \o (IF IsUpper(last) /\ init # <<>> THEN <<"_">> ELSE <<>>)
            \o <<ToLower(last)>>

RECURSIVE OnWire(_)
\* A document under the wire names of its keys, nested mappings too.
OnWire(v) ==
    CASE v.t = "dict" ->
            [v EXCEPT !.items = [i \in DOMAIN v.items |->
                Entry(Underscored(v.items[i].k), OnWire(Plain(v.items[i])))]]
      [] v.t = "list" -> [v EXCEPT !.items = [i \in DOMAIN v.items |-> OnWire(v.items[i])]]
      [] OTHER -> v

RECURSIVE PopulatedFrom(_, _)
\* The record holds, under the wire name of every entry, what the entry
\* carries: a text as it is, a mapping as a record populated the same way.
PopulatedFrom(obj, entries) ==
    /\ obj.t = "object"
    /\ \A i \in DOMAIN entries :
          /\ HasKey(obj, Underscored(entries[i].k))
          /\ LET x == Lookup(obj, Underscored(entries[i].k))
             IN /\ entries[i].t = "dict" => PopulatedFrom(x, entries[i].items)
                /\ (entries[i].t = "str" /\ x.t = "str") => x.s = entries[i].s
                /\ entries[i].t # "none" => x.t # "none"

\* C17: the builder writes every parameter name, given in camel or capitalized
\* style, as the underscore-joined lower-case wire key, in nested mappings too;
\* and a response carrying those wire keys is decoded into the target with the
\* fields of those names populated from them, in nested records too.
C17_KeyCaseRoundTrip ==
    /\ (bu.pc = "built" /\ bu.params # <<>>) =>
          /\ bu.result.err = ""
          /\ bu.result.text = DumpsText(OnWire(PyDict(bu.params)))
    /\ \A c \in CallIds :
          (/\ calls[c].pc = "done"
           /\ Ran(calls[c], "structure")
           /\ bu.pc = "built" /\ bu.params # <<>>
           /\ calls[c].raw = DumpsText(OnWire(PyDict(bu.params)))) =>
              /\ calls[c].outcome.kind = "value"
              /\ PopulatedFrom(calls[c].outcome.value, bu.params)

\* A currency given with capitalized names, its details nested, came back and
\* was decoded.
C17_Witness ==
    /\ bu.pc = "built"
    /\ Len(bu.params) = 8
    /\ bu.params[6].k = <<"D", "e", "t", "a", "i", "l", "s">>
    /\ Len(bu.params[6].items) = 12
    /\ bu.params[6].items[3].k = Styled(K_network_confirmations, "capitalized")
    /\ \E c \in CallIds :
          /\ calls[c].pc = "done"
          /\ calls[c].cls = Cls("Currency")
          /\ Len(calls[c].sent) = 1
          /\ calls[c].raw = calls[c].sent[1].data.s
          /\ calls[c].outcome.kind = "value"

\* A (value, converter) pair whose value is present.
PresentPair(v) ==
    /\ v.t = "tuple" /\ Len(v.items) = 2
    /\ v.items[1].t # "none"
    /\ v.items[2].t = "func"

\* What str and int make of the values the pairs carry.
Converted(v) ==
    CASE v.items[2] = StrConv /\ v.items[1] = PyInt(1) -> PyStr(<<"1">>)
      [] v.items[2] = StrConv /\ v.items[1] = PyInt(0) -> PyStr(<<"0">>)
      [] v.items[2] = StrConv /\ v.items[1] = PyBool(FALSE) ->
            PyStr(<<"F", "a", "l", "s", "e">>)
      [] v.items[2] = IntConv /\ v.items[1] = PyStr(<<"7">>) -> PyInt(7)

\* C18: for a parameter given as a (value, converter) pair with a present value
\* the body holds under the parameter's key the converter applied to the value,
\* the converter having run once for it: not the value as given, not the pair.
C18_ConverterApplied ==
    (bu.pc = "built" /\ bu.result.err = "") =>
        \A i \in DOMAIN bu.params :
            PresentPair(Plain(bu.params[i])) =>
                LET key == bu.params[i].k
                    pair == Plain(bu.params[i])
                IN /\ HasKey(PyDict(bu.result.processed), key)
                   /\ Lookup(PyDict(bu.result.processed), key) = Converted(pair)
                   /\ Lookup(PyDict(bu.result.processed), key) # pair.items[1]
                   /\ Cardinality({j \in DOMAIN bu.result.invoked :
                                      bu.result.invoked[j] = key}) = 1
                   /\ Occurs(WireKey(key) \o DumpsText(Converted(pair)), bu.result.text)
                   /\ ~Occurs(WireKey(key) \o DumpsText(pair.items[1]), bu.result.text)
                   /\ ~Occurs(WireKey(key) \o <<"[">>, bu.result.text)

\* {limit: (1, str), sortedBy: ("7", int)} was built.
C18_Witness ==
    /\ bu.pc = "built"
    /\ Len(bu.params) = 2
    /\ Plain(bu.params[1]) = PyTuple(<<PyInt(1), StrConv>>)
    /\ Plain(bu.params[2]) = PyTuple(<<PyStr(<<"7">>), IntConv>>)
    /\ bu.result.err = ""
    /\ bu.result.text = <<"{", "\"", "l", "i", "m", "i", "t", "\"", ":", "\"", "1", "\"", ",",
                          "\"", "s", "o", "r", "t", "e", "d", "_", "b", "y", "\"", ":", "7", "}">>

\* What a call must end in for the response handed to it and the target it
\* asked for.
OwnOutcome(call) ==
    CASE call.response.status = 500 /\ call.response.raw = DumpsText(ErrorDoc) ->
            call.outcome.at = "_try_raise" /\ call.outcome.kind = "CoinbaseError"
      [] call.response.status = 500 /\ call.response.raw = DumpsText(AccountDoc) ->
            call.outcome.at = "_try_raise" /\ call.outcome.kind = "KeyError"
      [] call.response.status = 200 /\ call.response.raw = DumpsText(AccountDoc)
         /\ ~call.cls.list ->
            /\ call.outcome.kind = "value"
            /\ call.outcome.value.t = "object"
      [] call.response.status = 200 /\ call.response.raw = DumpsText(AccountDoc)
         /\ call.cls.list ->
            call.outcome.at = "structure" /\ call.outcome.kind = "TypeError"
      [] OTHER -> call.outcome.at = "structure" /\ call.outcome.kind # "value"

\* C19: however concurrent dispatches on one endpoint interleave at their
\* suspension points, each sends the timestamp, the signature and the body it
\* computed itself, acts on the response handed to it and ends as that response
\* and its own target decide.
C19_DispatchesIsolated ==
    \A c \in CallIds :
        /\ calls[c].sent # <<>> =>
              LET r == calls[c].sent[1]
              IN /\ Len(calls[c].sent) = 1
                 /\ r.wire.timestamp = calls[c].timestamp
                 /\ r.data = calls[c].body
                 /\ r.wire.sign = calls[c].signature
                 /\ r.wire.sign.msg = calls[c].timestamp \o <<"G", "E", "T">> \o P_accounts
                                      \o (IF calls[c].body.some THEN calls[c].body.s
                                          ELSE <<>>)
                 /\ (calls[c].cls.list <=> calls[c].body.some)
        /\ (calls[c].pc = "done" /\ Ran(calls[c], "_try_raise")) =>
              /\ calls[c].status = calls[c].response.status
              /\ calls[c].raw = calls[c].response.raw
              /\ OwnOutcome(calls[c])

\* Two dispatches in flight together, begun at different readings of the clock
\* for different targets: one has ended with its record while the other, answered
\* 500, still waits for its text.
C19_Witness ==
    \E c \in CallIds, o \in CallIds :
        /\ c # o
        /\ calls[c].pc = "done"
        /\ calls[c].outcome.kind = "value"
        /\ calls[o].pc = "reading"
        /\ calls[o].response.status = 500
        /\ calls[o].cls.list
        /\ calls[c].timestamp = <<"2", ".", "0">>
        /\ calls[o].timestamp = <<"1", ".", "0">>


\* C20: no step of a dispatch, whether it returns, fails or is abandoned where
\* it is suspended, changes the secret, the session or the converter of the
\* client.
C20_ConfigurationUnchanged == [][UNCHANGED <<secret, session, converter>>]_vars

\* A dispatch was abandoned while it awaited its response, after its request
\* went out, and the client still holds what it was constructed with.
C20_Witness ==
    \E c \in CallIds :
        /\ calls[c].pc = "done"
        /\ calls[c].outcome.kind = "CancelledError"
        /\ Len(calls[c].sent) = 1
        /\ secret = <<"c", "2", "U", "=">>
        /\ session = SessionHeaders
        /\ converter = Hooks

\* C21: a dispatch the transport failed ends in the exception the transport
\* raised, which is no exchange error kind and comes from no decoding step;
\* the classifier, the parse, the key translation and the converter have not
\* run for it, and it returns no value.
C21_TransportFailurePassesThrough ==
    \A c \in CallIds :
        (calls[c].pc = "done" /\ calls[c].outcome.at = "send") =>
            /\ calls[c].outcome.kind \in {"ClientError", "CancelledError"}
            /\ calls[c].outcome.kind \notin ExchangeKinds
            /\ ~Ran(calls[c], "text")
            /\ ~Ran(calls[c], "_try_raise")
            /\ ~Ran(calls[c], "loads")
            /\ ~Ran(calls[c], "decamelize")
            /\ ~Ran(calls[c], "structure")
            /\ calls[c].outcome.value = None
            /\ calls[c].status = 0

\* An operation of a group that does dispatch had its request out when the
\* transport raised.
C21_Witness ==
    \E c \in CallIds :
        /\ calls[c].pc = "done"
        /\ calls[c].outcome.kind = "ClientError"
        /\ calls[c].outcome.at = "send"
        /\ calls[c].group = "Orders"
        /\ Len(calls[c].sent) = 1
        /\ calls[c].steps = <<"_buildup", "now", "sign", "send">>

\* C22: a GET for a list of Account answered 200 with the JSON array of one
\* complete account (id "1", balance "10.5") returns a list of exactly one
\* Account whose id is "1" and whose balance is the decimal 10.5: the
\* coefficient 105 with one fraction digit.
C22_AccountListScenario ==
    \A c \in CallIds :
        ( /\ Classified(calls[c])
          /\ calls[c].method = "GET"
          /\ calls[c].cls = ListOf("Account")
          /\ calls[c].status = 200
          /\ calls[c].raw = DumpsText(AccountListDoc) ) =>
            /\ calls[c].outcome.kind = "value"
            /\ calls[c].outcome.value.t = "list"
            /\ Len(calls[c].outcome.value.items) = 1
            /\ LET account == calls[c].outcome.value.items[1]
               IN /\ account.t = "object"
                  /\ Len(account.items) = 7
                  /\ HasKey(account, K_id)
                  /\ Lookup(account, K_id) = PyStr(<<"1">>)
                  /\ HasKey(account, K_balance)
                  /\ Lookup(account, K_balance) = Val("decimal", <<"1", "0", "5">>, 1, <<>>)

\* The scenario's dispatch has returned.
C22_Witness ==
    \E c \in CallIds :
        /\ calls[c].pc = "done"
        /\ calls[c].method = "GET"
        /\ calls[c].endpoint = P_fees
        /\ calls[c].cls = ListOf("Account")
        /\ calls[c].status = 200
        /\ calls[c].raw = DumpsText(AccountListDoc)
        /\ calls[c].outcome.kind = "value"
        /\ calls[c].steps = <<"now", "sign", "send", "text", "_try_raise", "loads",
                              "decamelize", "structure">>

RECURSIVE Normal(_, _)
\* A coefficient and its count of fraction digits with no zero at either end
\* of the coefficient: two decimals are the same value when these agree.
Normal(digits, n) ==
    CASE Len(digits) > 1 /\ digits[1] = "0" -> Normal(Tail(digits), n)
      [] Len(digits) > 1 /\ digits[1] # "0" /\ digits[Len(digits)] = "0" ->
            Normal(SubSeq(digits, 1, Len(digits) - 1), n - 1)
      [] OTHER -> IF digits = <<"0">> THEN [digits |-> digits, n |-> 0]
                  ELSE [digits |-> digits, n |-> n]

\* The decimal value a text denotes, read off the text: its digits, the count
\* of those after the point, and the exponent after "E-" when there is one.
ValueOfText(s) ==
    LET e == IF \E i \in DOMAIN s : s[i] = "E"
             THEN CHOOSE i \in DOMAIN s : s[i] = "E" ELSE Len(s) + 1
        after == {i \in 1..(e - 1) : \E j \in 1..(i - 1) : s[j] = "."}
        shift == IF e + 2 <= Len(s) THEN StrInt(SubSeq(s, e + 2, Len(s))) ELSE 0
    IN Normal(SelectSeq(SubSeq(s, 1, e - 1), IsDigit), Cardinality(after) + shift)

\* The digits a text writes from its first digit that is not zero on.
Significant(s) ==
    LET e == IF \E i \in DOMAIN s : s[i] = "E"
             THEN CHOOSE i \in DOMAIN s : s[i] = "E" ELSE Len(s) + 1
    IN StripZeros(SelectSeq(SubSeq(s, 1, e - 1), IsDigit))

\* C23: an amount written in digits and a point decodes to the decimal the
\* text denotes and encodes again to a text that denotes the same decimal,
\* every significant digit kept.
C23_AmountRoundTrip ==
    ( /\ leaf.type = "Decimal"
      /\ leaf.wire.t = "str"
      /\ IsDecimalText(leaf.wire.s) ) =>
        /\ leaf.pc \in {"structured", "unstructured"} =>
              /\ leaf.r.err = ""
              /\ leaf.r.v.t = "decimal"
              /\ Normal(leaf.r.v.s, leaf.r.v.n) = ValueOfText(leaf.wire.s)
              /\ leaf.r.v.s = Significant(leaf.wire.s)
        /\ leaf.pc = "unstructured" =>
              /\ leaf.out.t = "str"
              /\ ValueOfText(leaf.out.s) = ValueOfText(leaf.wire.s)
              /\ Significant(leaf.out.s) = Significant(leaf.wire.s)

\* The amount of twenty digits went through both hooks and came back as the
\* text it was.
C23_Witness ==
    /\ leaf.pc = "unstructured"
    /\ leaf.wire = PyStr(<<"1", "2", ".", "3", "4", "5", "0", "0", "0", "0", "0", "0", "0",
                          "0", "0", "0", "0", "0", "0", "0", "1">>)
    /\ leaf.out = leaf.wire
    /\ Len(leaf.r.v.s) = 20

\* A calendar date written YYYY-MM-DD, read off the text.
WrittenDate(s) ==
    /\ Len(s) = 10
    /\ s[5] = "-" /\ s[8] = "-"
    /\ AllDigits(SubSeq(s, 1, 4)) /\ AllDigits(SubSeq(s, 6, 7)) /\ AllDigits(SubSeq(s, 9, 10))
    /\ LET year == StrInt(SubSeq(s, 1, 4))
           month == StrInt(SubSeq(s, 6, 7))
           day == StrInt(SubSeq(s, 9, 10))
       IN /\ year >= 1
          /\ month \in 1..12
          /\ day >= 1
          /\ day <= (IF month = 2 THEN 29 ELSE 31)
          /\ ~(month \in {4, 6, 9, 11} /\ day = 31)
          /\ ~(month = 2 /\ day = 29 /\ (year % 4 # 0 \/ (year % 100 = 0 /\ year % 400 # 0)))

\* C24: a timestamp leaf whose wire value is no text, or a text that writes no
\* date, fails to decode with an error: the hook gives no value, be it None,
\* a default or the part of the text that could be read.
C24_MalformedTimeFails ==
    ( /\ leaf.type = "datetime"
      /\ leaf.pc = "structured"
      /\ ~(leaf.wire.t = "str" /\ WrittenDate(leaf.wire.s)) ) =>
        /\ leaf.r.err = "ValueError"
        /\ leaf.r.v = None

\* The hook was given a day the month does not have, and one given a number.
C24_Witness ==
    /\ leaf.type = "datetime"
    /\ leaf.pc = "structured"
    /\ leaf.r.err = "ValueError"
    /\ \/ leaf.wire = PyStr(<<"2", "0", "2", "1", "-", "0", "2", "-", "3", "0">>)
       \/ leaf.wire = PyInt(1612051200)

\* C25: each of the three fund-moving operations of Withdrawals (to_account,
\* to_crypto, to_external), called on a client with a valid secret, names POST
\* as its verb, signs POST and sends its one request with POST.
C25_WithdrawalsPost ==
    \A c \in CallIds :
        ( /\ calls[c].pc # "idle"
          /\ calls[c].group = "Withdrawals"
          /\ calls[c].name \in {"to_account", "to_crypto", "to_external"}
          /\ b64decode(secret).err = "" ) =>
            /\ \A op \in Withdrawals : op.name = calls[c].name => op.method = "POST"
            /\ Len(calls[c].sent) = 1
            /\ calls[c].sent[1].verb = "POST"
            /\ calls[c].signature.msg =
                  calls[c].timestamp \o <<"P", "O", "S", "T">> \o calls[c].endpoint
                  \o BodyOrEmpty(calls[c].body)

\* C26: when every parameter is given as a plain value, of whatever shape, the
\* builder raises nothing, calls nothing, and emits every value that is not
\* None unchanged under its key: a plain list of two members too.
C26_PlainValuesUnchanged ==
    ( /\ bu.pc = "built"
      /\ \A i \in DOMAIN bu.params : Plain(bu.params[i]).t # "tuple" ) =>
        /\ bu.result.err = ""
        /\ bu.result.invoked = <<>>
        /\ \A i \in DOMAIN bu.params :
              Plain(bu.params[i]).t # "none" =>
                 \E j \in DOMAIN bu.result.processed :
                     /\ bu.result.processed[j].k = bu.params[i].k
                     /\ Plain(bu.result.processed[j]) = Plain(bu.params[i])

\* A present value Python takes for false: False, 0, the empty text, the
\* empty sequence.
Falsy(v) ==
    \/ v.t \in {"bool", "int"} /\ v.n = 0
    \/ v.t = "str" /\ v.s = <<>>
    \/ v.t = "list" /\ v.items = <<>>

\* C27: a body the builder returns holds the key of every parameter whose
\* value is present and false (False, 0, "", []): the value itself when it was
\* given plainly, the converter's result when it was given in a pair.
C27_FalsyIncluded ==
    (bu.pc = "built" /\ bu.result.err = "") =>
        \A i \in DOMAIN bu.params :
            LET key == bu.params[i].k
                value == Plain(bu.params[i])
                body == PyDict(bu.result.processed)
            IN /\ Falsy(value) =>
                     /\ HasKey(body, key)
                     /\ Lookup(body, key) = value
                     /\ Occurs(WireKey(key) \o DumpsText(value), bu.result.text)
               /\ (PresentPair(value) /\ Falsy(value.items[1])) =>
                     /\ HasKey(body, key)
                     /\ Lookup(body, key) = Converted(value)
                     /\ Occurs(WireKey(key) \o DumpsText(Converted(value)), bu.result.text)

\* {limit: False, sortedBy: (0, str), after: []} was built.
C27_Witness ==
    /\ bu.pc = "built"
    /\ Len(bu.params) = 3
    /\ Plain(bu.params[1]) = PyBool(FALSE)
    /\ Plain(bu.params[2]) = PyTuple(<<PyInt(0), StrConv>>)
    /\ Plain(bu.params[3]) = PyList(<<>>)
    /\ bu.result.err = ""
    /\ bu.result.text = <<"{", "\"", "l", "i", "m", "i", "t", "\"", ":", "f", "a", "l", "s", "e",
                          ",", "\"", "s", "o", "r", "t", "e", "d", "_", "b", "y", "\"", ":",
                          "\"", "0", "\"", ",", "\"", "a", "f", "t", "e", "r", "\"", ":",
                          "[", "]", "}">>

\* The call was handed an argument its operation refuses: a level that is
\* none of 1, 2, 3, or a reserved profile name.
Refused(call) ==
    \/ /\ call.group = "Products" /\ call.name = "get_book"
       /\ ~(call.arg.t \in {"int", "bool"} /\ call.arg.n \in 1..3)
    \/ /\ call.group = "Profiles" /\ call.name = "rename"
       /\ call.arg \in {PyStr(<<"d", "e", "f", "a", "u", "l", "t">>),
                        PyStr(<<"m", "a", "r", "g", "i", "n">>)}

\* C28: Products.get_book with a level outside {1, 2, 3} and Profiles.rename
\* with the name "default" or "margin" end in ValueError with no body built,
\* no timestamp read, no signature computed and no request issued.
C28_ValidationFirst ==
    \A c \in CallIds :
        (calls[c].pc # "idle" /\ Refused(calls[c])) =>
            /\ calls[c].pc = "done"
            /\ calls[c].outcome.kind = "ValueError"
            /\ calls[c].outcome.at = "validate"
            /\ calls[c].steps = <<>>
            /\ ~calls[c].body.some
            /\ calls[c].timestamp = <<>>
            /\ calls[c].signature = NoSignature
            /\ calls[c].sent = <<>>

\* get_book was called with level 4 and ended in ValueError.
C28_Witness ==
    \E c \in CallIds :
        /\ calls[c].group = "Products"
        /\ calls[c].name = "get_book"
        /\ calls[c].arg = PyInt(4)
        /\ calls[c].pc = "done"
        /\ calls[c].outcome.kind = "ValueError"

\* The seconds of the period a member of Period is named for.
SecondsOf(name) ==
    CASE name = <<"M", "i", "n", "u", "t", "e">> -> 60
      [] name = <<"M", "i", "n", "u", "t", "e", "5">> -> 5 * 60
      [] name = <<"M", "i", "n", "u", "t", "e", "1", "5">> -> 15 * 60
      [] name = <<"H", "o", "u", "r">> -> 60 * 60
      [] name = <<"H", "o", "u", "r", "6">> -> 6 * 60 * 60
      [] name = <<"D", "a", "y">> -> 24 * 60 * 60

\* C29: get_ohlc sends as the period parameter the number of seconds of the
\* period its Period member is named for: 60, 300, 900, 3600, 21600, 86400.
C29_PeriodSeconds ==
    \A c \in CallIds :
        (calls[c].name = "get_ohlc" /\ calls[c].pc # "idle" /\ calls[c].arg.t = "enum") =>
            /\ calls[c].arg.n = SecondsOf(calls[c].arg.s)
            /\ calls[c].body =
                  Some(<<"{">> \o WireKey(K_period) \o IntStr(SecondsOf(calls[c].arg.s))
                       \o <<"}">>)

\* C30: for the same parameters the builders of the two Endpoint base classes
\* end alike, in the same body or in the same exception, parameters given as
\* (value, converter) pairs included.
C30_BaseClassesEquivalent ==
    bu.pc = "built" =>
        /\ bu.other.err = bu.result.err
        /\ bu.other.text = bu.result.text

====
